---------------------------- MODULE Spec2Model ----------------------------
(***************************************************************************)
(* A model of bag-address-lookup: the postal-code key codec, the indexer   *)
(* and range coalescer of the build pipeline, the binary file format with  *)
(* its encoder and its two readers, and the lookup over encoded ranges.    *)
(*                                                                         *)
(* Conventions.                                                            *)
(*  - A byte string (a Rust String, &str or &[u8]) is a sequence of        *)
(*    naturals in 0..255.                                                  *)
(*  - A u32 is a pair <<hi, lo>> of 16-bit limbs (value hi * 2^16 + lo):   *)
(*    the checker's integers are 32-bit signed, so a u32 does not fit in   *)
(*    one of them.  A usize is the same pair with a wider high limb.       *)
(*    A u16 and a u8 are plain naturals.                                   *)
(*  - A fallible value is a record [tag |-> ..., val |-> ...]; the tag     *)
(*    "Panic" stands for a Rust panic unwinding out of the operation.      *)
(*  - Integer overflow of +, - and * panics when the build has overflow    *)
(*    checks (a debug profile) and wraps when it has none (a release       *)
(*    profile); the width of usize is 32 or 64 bits by target.  Both are   *)
(*    properties of the build, drawn in Init and never changed.            *)
(***************************************************************************)
EXTENDS Integers, Sequences, FiniteSets, TLC

VARIABLES
    build,     \* [overflow_checks |-> BOOLEAN, usize_bits |-> 32 or 64]
    phase,     \* the position of the driver
    codec,     \* the key codec's inputs and outputs
    data,      \* ParsedData: [localities, public_spaces, addresses]
    loc,       \* the result of index_localities
    psm,       \* the result of index_public_spaces
    ranges,    \* the result of encode_addresses
    db,        \* the Database (built, or handed to the encoder)
    file,      \* the bytes of the database file
    view,      \* the result of DatabaseView::from_bytes
    owned,     \* the result of Database::from_reader
    query,     \* the last lookup's arguments
    result,    \* the last lookup's results
    disk,      \* the file system of the builder: the zip and the output file
    run,       \* the running create_database call
    readers,   \* the lookup calls in progress on one loaded handle
    conn       \* the connection being handled by the server

\* The state of the builder's surroundings and of the server.
service == <<disk, run, readers, conn>>

vars == <<build, phase, codec, data, loc, psm, ranges, db, file, view, owned, query, result,
          service>>

-----------------------------------------------------------------------------
(* Values *)

Nil == [tag |-> "Nil", val |-> 0]
Panic == [tag |-> "Panic", val |-> 0]
None == [tag |-> "None", val |-> 0]
Some(v) == [tag |-> "Some", val |-> v]
Ok(v) == [tag |-> "Ok", val |-> v]
Err(e) == [tag |-> "Err", val |-> e]

\* The ? operator: the value of an Ok or a Some goes on to then; anything
\* else (an Err, a None, a Panic) is the result.
Try(r, then(_)) == IF r.tag \in {"Ok", "Some"} THEN then(r.val) ELSE r

\* Comparisons that look at the tag before the value.
IsOk(r, v) == r.tag = "Ok" /\ r.val = v
IsSome(o, v) == o.tag = "Some" /\ o.val = v
ReturnedNone(r) == r.tag = "Ok" /\ r.val.tag = "None"
SameReturned(a, b) ==
    /\ a.tag = b.tag
    /\ a.tag = "Ok" => /\ a.val.tag = b.val.tag
                       /\ a.val.tag = "Some" => a.val.val = b.val.val

\* What a lookup returns: Ok(its Option), or Panic.
Returned(o) == IF o.tag = "Panic" THEN Panic ELSE Ok(o)

\* Option::ok_or(e)
OkOr(o, e) == IF o.tag = "Some" THEN Ok(o.val) ELSE IF o.tag = "None" THEN Err(e) ELSE o

Limb == 2 ^ 16
Byte == 2 ^ 8

\* u16::MAX
U16_MAX == 65535

Min(a, b) == IF a < b THEN a ELSE b

\* The sequence with the elements f[1], ..., f[n].
SeqOf(f, n) == SubSeq(f, 1, n)

\* The sequence of the `name` fields of a sequence of records.
names_of(records) == SeqOf([i \in 1..Len(records) |-> records[i].name], Len(records))

\* A natural below 2^31 as a limb pair.
Wide(n) == <<n \div Limb, n % Limb>>
\* A limb pair below 2^31 as a natural.
Nat32(x) == x[1] * Limb + x[2]

LtW(a, b) == a[1] < b[1] \/ (a[1] = b[1] /\ a[2] < b[2])
LeW(a, b) == a = b \/ LtW(a, b)

\* The mathematical sum and small multiples of limb pairs (no width applied).
AddW(a, b) == <<a[1] + b[1] + ((a[2] + b[2]) \div Limb), (a[2] + b[2]) % Limb>>
Mul4W(a) == <<a[1] * 4 + ((a[2] * 4) \div Limb), (a[2] * 4) % Limb>>
Mul16W(a) == <<a[1] * 16 + ((a[2] * 16) \div Limb), (a[2] * 16) % Limb>>

\* A u32 whose value is small enough to be a position in a modelled list.
FitsIndex(x) == x[1] = 0
FitsU32(x) == x[1] < Limb
U32_MAX == <<Limb - 1, Limb - 1>>
WrapU32(x) == <<x[1] % Limb, x[2]>>

\* u32::checked_add
checked_add_u32(a, b) == IF FitsU32(AddW(a, b)) THEN Some(AddW(a, b)) ELSE None

\* u32 `+`: panics on overflow with overflow checks, wraps without.
add_u32(a, b, checks) ==
    IF FitsU32(AddW(a, b)) THEN Ok(AddW(a, b))
    ELSE IF checks THEN Panic ELSE Ok(WrapU32(AddW(a, b)))

\* u8 `-`: panics on overflow with overflow checks, wraps without.
sub_u8(a, b, checks) ==
    IF a >= b THEN Ok(a - b)
    ELSE IF checks THEN Panic ELSE Ok(a - b + Byte)

\* u32 `<<` by k < 32: the bits shifted out are dropped in every build.
shl_u32(x, k) ==
    IF k >= 16
    THEN <<(x[2] * (2 ^ (k - 16))) % Limb, 0>>
    ELSE <<(x[1] * (2 ^ k) + (x[2] \div (2 ^ (16 - k)))) % Limb, (x[2] * (2 ^ k)) % Limb>>

RECURSIVE BitOr(_, _)
BitOr(a, b) ==
    IF a = 0 THEN b
    ELSE IF b = 0 THEN a
    ELSE (IF (a % 2) + (b % 2) > 0 THEN 1 ELSE 0) + 2 * BitOr(a \div 2, b \div 2)

\* u32 `|`
or_u32(a, b) == <<BitOr(a[1], b[1]), BitOr(a[2], b[2])>>

\* Byte-lexicographic order of byte strings (Ord for str and [u8]).
RECURSIVE LexLessFrom(_, _, _)
LexLessFrom(a, b, i) ==
    IF i > Len(a) THEN i <= Len(b)
    ELSE IF i > Len(b) THEN FALSE
    ELSE IF a[i] # b[i] THEN a[i] < b[i]
    ELSE LexLessFrom(a, b, i + 1)

LexLess(a, b) == LexLessFrom(a, b, 1)

-----------------------------------------------------------------------------
(* database/util.rs: the key codec *)

DATABASE_HEADER_SIZE == 36

\* u8::to_ascii_uppercase
to_ascii_uppercase(c) == IF c >= 97 /\ c <= 122 THEN c - 32 ELSE c

\* The six bytes taken as they are.
normalize_postalcode_as_is(postalcode) ==
    IF Len(postalcode) # 6 THEN None ELSE Some(postalcode)

\* normalize_postalcode: None unless six bytes; each byte ASCII-uppercased.
normalize_postalcode(postalcode) ==
    IF Len(postalcode) # 6 THEN None
    ELSE Some([i \in 1..6 |-> to_ascii_uppercase(postalcode[i])])

\* A field shifted one bit short of its place.
encode_pc_fields_overlap(digits, l0, l1) ==
    or_u32(or_u32(shl_u32(Wide(digits), 18), shl_u32(Wide(l0), 12)), shl_u32(Wide(l1), 8))

\* (digits << 18) | (l0 << 13) | (l1 << 8)
encode_pc_fields(digits, l0, l1) ==
    or_u32(or_u32(shl_u32(Wide(digits), 18), shl_u32(Wide(l0), 13)), shl_u32(Wide(l1), 8))

\* encode_pc on a slice of at least six bytes.  Indexing a shorter slice
\* panics in every build.
encode_pc(s, checks) ==
    IF Len(s) < 6 THEN Panic
    ELSE
    LET d0 == sub_u8(s[1], 48, checks)
        d1 == sub_u8(s[2], 48, checks)
        d2 == sub_u8(s[3], 48, checks)
        d3 == sub_u8(s[4], 48, checks)
        l0 == sub_u8(s[5], 65, checks)
        l1 == sub_u8(s[6], 65, checks)
    IN IF \E r \in {d0, d1, d2, d3, l0, l1} : r.tag = "Panic" THEN Panic
       ELSE Ok(encode_pc_fields(d0.val * 1000 + d1.val * 100 + d2.val * 10 + d3.val,
                                l0.val, l1.val))

-----------------------------------------------------------------------------
(* transform.rs: the indexer *)

\* Vec::sort on byte strings.
sort_names(names) == SortSeq(names, LexLess)

\* Vec::dedup: consecutive equal elements collapse to the first of them.
RECURSIVE dedup_range(_, _, _)
dedup_range(s, lo, hi) ==
    IF lo > hi THEN <<>>
    ELSE IF lo = hi THEN <<s[lo]>>
    ELSE LET mid == (lo + hi) \div 2
             left == dedup_range(s, lo, mid)
             right == dedup_range(s, mid + 1, hi)
         IN IF left[Len(left)] = right[1] THEN left \o Tail(right) ELSE left \o right

dedup(s) == dedup_range(s, 1, Len(s))

\* The value a HashMap built by `insert(name, index)` over the unique names
\* holds for `name`: its position, counted from 0.
name_index_get(names, name) ==
    IF \E i \in 1..Len(names) : names[i] = name
    THEN Some((CHOOSE i \in 1..Len(names) : names[i] = name) - 1)
    ELSE None

\* The last record of `records` with this id: a later HashMap::insert with
\* an equal key replaces the earlier value.
last_with_id(records, id) ==
    records[CHOOSE i \in 1..Len(records) :
        /\ records[i].id = id
        /\ \A j \in (i + 1)..Len(records) : records[j].id # id]

ids_of(records) == {records[i].id : i \in 1..Len(records)}

\* The length check made before the names are deduplicated.
index_localities_too_many_undeduped(localities) ==
    Len(sort_names(names_of(localities))) > U16_MAX

\* No length check at all.
index_localities_too_many_unchecked(localities) == FALSE

index_localities_too_many(localities) ==
    Len(dedup(sort_names(names_of(localities)))) > U16_MAX

\* The id map filled from the first record of each id instead of the last.
index_localities_map_first(localities, locality_names) ==
    [id \in ids_of(localities) |->
        name_index_get(locality_names,
            localities[CHOOSE i \in 1..Len(localities) :
                /\ localities[i].id = id
                /\ \A j \in 1..(i - 1) : localities[j].id # id].name).val % (U16_MAX + 1)]

\* locality_map: for each record in input order, insert(id, name_index[name]).
index_localities_map(localities, locality_names) ==
    [id \in ids_of(localities) |->
        name_index_get(locality_names, last_with_id(localities, id).name).val % (U16_MAX + 1)]

index_localities(localities) ==
    IF index_localities_too_many(localities)
    THEN Err("too many localities for u16 index")
    ELSE LET locality_names ==
                 dedup(sort_names(names_of(localities)))
         IN Ok([locality_names |-> locality_names,
                locality_map |-> index_localities_map(localities, locality_names)])

\* index_public_spaces: the sorted, deduplicated names, and for each id the
\* (name index, locality index) of the last record with that id; the lookup of
\* a locality id that is not in locality_map panics (expect).
index_public_spaces(public_spaces, locality_map) ==
    LET public_space_names == dedup(sort_names(names_of(public_spaces)))
    IN IF \E i \in 1..Len(public_spaces) :
              public_spaces[i].locality_id \notin DOMAIN locality_map
       THEN Panic
       ELSE Ok([names |-> public_space_names,
                map |-> [id \in ids_of(public_spaces) |->
                    [public_space_index |->
                         Wide(name_index_get(public_space_names,
                                             last_with_id(public_spaces, id).name).val),
                     locality_index |->
                         locality_map[last_with_id(public_spaces, id).locality_id]]]])

-----------------------------------------------------------------------------
(* transform.rs: the range coalescer *)

\* The comparator of entries.sort_by: postal_code, then public_space_index,
\* then locality_index, then house_number.
entry_less(a, b) ==
    IF a.postal_code # b.postal_code THEN LtW(a.postal_code, b.postal_code)
    ELSE IF a.public_space_index # b.public_space_index
         THEN LtW(a.public_space_index, b.public_space_index)
    ELSE IF a.locality_index # b.locality_index THEN a.locality_index < b.locality_index
    ELSE LtW(a.house_number, b.house_number)

\* The entry pushed for one address.
entry_of(address, public_spaces_map, pc_encoded) ==
    [postal_code |-> pc_encoded,
     house_number |-> address.house_number,
     public_space_index |-> public_spaces_map[address.public_space_id].public_space_index,
     locality_index |-> public_spaces_map[address.public_space_id].locality_index]

\* The entries pushed for the addresses at positions lo..hi, in their order
\* (the list is split in halves to keep the evaluation shallow): an address
\* whose public-space id is not a key of the map is skipped; encode_pc may
\* panic.
RECURSIVE collect_entries(_, _, _, _, _)
collect_entries(addresses, public_spaces_map, lo, hi, checks) ==
    IF lo > hi THEN Ok(<<>>)
    ELSE IF lo = hi
    THEN IF addresses[lo].public_space_id \notin DOMAIN public_spaces_map
         THEN Ok(<<>>)
         ELSE Try(encode_pc(addresses[lo].postal_code, checks), LAMBDA pc_encoded :
              Ok(<<entry_of(addresses[lo], public_spaces_map, pc_encoded)>>))
    ELSE Try(collect_entries(addresses, public_spaces_map, lo, (lo + hi) \div 2, checks),
             LAMBDA left :
         Try(collect_entries(addresses, public_spaces_map, (lo + hi) \div 2 + 1, hi, checks),
             LAMBDA right :
         Ok(left \o right)))

\* NumberRange { postal_code, start: house_number, length: 0, .. }
new_range(entry) ==
    [postal_code |-> entry.postal_code,
     start |-> entry.house_number,
     length |-> 0,
     public_space_index |-> entry.public_space_index,
     locality_index |-> entry.locality_index]

same_group(range, entry) ==
    /\ range.postal_code = entry.postal_code
    /\ range.public_space_index = entry.public_space_index
    /\ range.locality_index = entry.locality_index

\* u16::saturating_add(1)
saturating_add_1_u16(n) == IF n < U16_MAX THEN n + 1 ELSE U16_MAX

\* The loop body without the test that drops a covered house number.
fold_entry_keeps_covered(st, entry, checks) ==
    IF st.current.tag = "Some" /\ same_group(st.current.val, entry)
    THEN LET range == st.current.val
             range_end == add_u32(range.start, Wide(range.length), checks)
         IN IF range_end.tag = "Panic" THEN Panic
            ELSE IF range.length < U16_MAX
                    /\ LtW(range_end.val, U32_MAX)
                    /\ entry.house_number = AddW(range_end.val, Wide(1))
                 THEN Ok([st EXCEPT !.current.val.length = saturating_add_1_u16(range.length)])
                 ELSE Ok([ranges |-> Append(st.ranges, range),
                          current |-> Some(new_range(entry))])
    ELSE Ok([ranges |-> IF st.current.tag = "Some"
                        THEN Append(st.ranges, st.current.val) ELSE st.ranges,
             current |-> Some(new_range(entry))])

\* The loop body that never extends the open range.
fold_entry_never_extends(st, entry, checks) ==
    IF st.current.tag = "Some" /\ same_group(st.current.val, entry)
    THEN LET range == st.current.val
             range_end == add_u32(range.start, Wide(range.length), checks)
         IN IF range_end.tag = "Panic" THEN Panic
            ELSE IF LeW(entry.house_number, range_end.val) THEN Ok(st)
            ELSE Ok([ranges |-> Append(st.ranges, range),
                     current |-> Some(new_range(entry))])
    ELSE Ok([ranges |-> IF st.current.tag = "Some"
                        THEN Append(st.ranges, st.current.val) ELSE st.ranges,
             current |-> Some(new_range(entry))])

\* The loop body that extends the open range only while length < u16::MAX - 1.
fold_entry_splits_early(st, entry, checks) ==
    IF st.current.tag = "Some" /\ same_group(st.current.val, entry)
    THEN LET range == st.current.val
             range_end == add_u32(range.start, Wide(range.length), checks)
         IN IF range_end.tag = "Panic" THEN Panic
            ELSE IF LeW(entry.house_number, range_end.val) THEN Ok(st)
            ELSE IF range.length < U16_MAX - 1
                 THEN LET next == add_u32(range_end.val, Wide(1), checks)
                      IN IF next.tag = "Panic" THEN Panic
                         ELSE IF entry.house_number = next.val
                         THEN Ok([st EXCEPT
                                     !.current.val.length = saturating_add_1_u16(range.length)])
                         ELSE Ok([ranges |-> Append(st.ranges, range),
                                  current |-> Some(new_range(entry))])
                 ELSE Ok([ranges |-> Append(st.ranges, range),
                          current |-> Some(new_range(entry))])
    ELSE Ok([ranges |-> IF st.current.tag = "Some"
                        THEN Append(st.ranges, st.current.val) ELSE st.ranges,
             current |-> Some(new_range(entry))])

\* The loop body that computes range_end + 1 before it tests whether the
\* house number is covered.
fold_entry_adds_first(st, entry, checks) ==
    IF st.current.tag = "Some" /\ same_group(st.current.val, entry)
    THEN LET range == st.current.val
             range_end == add_u32(range.start, Wide(range.length), checks)
         IN IF range_end.tag = "Panic" THEN Panic
            ELSE LET next == add_u32(range_end.val, Wide(1), checks)
                 IN IF next.tag = "Panic" THEN Panic
                    ELSE IF LeW(entry.house_number, range_end.val) THEN Ok(st)
                    ELSE IF range.length < U16_MAX /\ entry.house_number = next.val
                    THEN Ok([st EXCEPT
                                !.current.val.length = saturating_add_1_u16(range.length)])
                    ELSE Ok([ranges |-> Append(st.ranges, range),
                             current |-> Some(new_range(entry))])
    ELSE Ok([ranges |-> IF st.current.tag = "Some"
                        THEN Append(st.ranges, st.current.val) ELSE st.ranges,
             current |-> Some(new_range(entry))])

\* One iteration of the loop over the sorted entries; st is
\* [ranges |-> the ranges pushed so far, current |-> the open range].
fold_entry(st, entry, checks) ==
    IF st.current.tag = "Some" /\ same_group(st.current.val, entry)
    THEN LET range == st.current.val
             range_end == add_u32(range.start, Wide(range.length), checks)
         IN IF range_end.tag = "Panic" THEN Panic
            ELSE IF LeW(entry.house_number, range_end.val) THEN Ok(st)
            ELSE IF range.length < U16_MAX
                 THEN LET next == add_u32(range_end.val, Wide(1), checks)
                      IN IF next.tag = "Panic" THEN Panic
                         ELSE IF entry.house_number = next.val
                         THEN Ok([st EXCEPT
                                     !.current.val.length = saturating_add_1_u16(range.length)])
                         ELSE Ok([ranges |-> Append(st.ranges, range),
                                  current |-> Some(new_range(entry))])
                 ELSE Ok([ranges |-> Append(st.ranges, range),
                          current |-> Some(new_range(entry))])
    ELSE Ok([ranges |-> IF st.current.tag = "Some"
                        THEN Append(st.ranges, st.current.val) ELSE st.ranges,
             current |-> Some(new_range(entry))])

\* The loop over the sorted entries at positions lo..hi, from state st (the
\* positions are split in halves to keep the evaluation shallow).
RECURSIVE fold_entries(_, _, _, _, _)
fold_entries(entries, lo, hi, st, checks) ==
    IF lo > hi THEN Ok(st)
    ELSE IF lo = hi THEN fold_entry(st, entries[lo], checks)
    ELSE Try(fold_entries(entries, lo, (lo + hi) \div 2, st, checks), LAMBDA next :
         fold_entries(entries, (lo + hi) \div 2 + 1, hi, next, checks))

\* The end of encode_addresses without the push of the open range.
finish_ranges_drops_open(st) == st.ranges

\* if let Some(finished) = current { ranges.push(finished) }
finish_ranges(st) ==
    IF st.current.tag = "Some" THEN Append(st.ranges, st.current.val) ELSE st.ranges

\* The entries left in input order.
sort_entries_skipped(entries) == entries

\* entries.sort_by(...)
sort_entries(entries) == SortSeq(entries, entry_less)

encode_addresses(addresses, public_spaces_map, checks) ==
    Try(collect_entries(addresses, public_spaces_map, 1, Len(addresses), checks),
        LAMBDA entries :
    Try(fold_entries(sort_entries(entries), 1, Len(entries),
                     [ranges |-> <<>>, current |-> None], checks),
        LAMBDA st :
    Ok(finish_ranges(st))))

(* database/create.rs *)

\* Database::from_parsed_data, given the results of its three calls.
from_parsed_data_result(l, p, r) ==
    IF l.tag = "Err" THEN l
    ELSE IF p.tag = "Panic" \/ r.tag = "Panic" THEN Panic
    ELSE Ok([localities |-> l.val.locality_names,
             public_spaces |-> p.val.names,
             ranges |-> r.val])

\* Database::from_parsed_data: Ok(the database), Err(the indexer's error) or
\* Panic.
from_parsed_data(parsed, checks) ==
    Try(index_localities(parsed.localities), LAMBDA lm :
    Try(index_public_spaces(parsed.public_spaces, lm.locality_map), LAMBDA pm :
    Try(encode_addresses(parsed.addresses, pm.map, checks), LAMBDA rs :
    Ok([localities |-> lm.locality_names, public_spaces |-> pm.names, ranges |-> rs]))))

(* database/util.rs, database/lookup.rs, database/decode.rs: lookup *)

\* The predicate of the two searches on a probed code: is_none_or(code < key),
\* or code <= key; an owned range always has its code.
\* The closure that compares with < in both searches.
probe_before_strict(code, key, inclusive) ==
    \/ code.tag = "None"
    \/ LtW(code.val, key)

\* The closures of the searches: code < key, or code <= key when inclusive;
\* a code that cannot be read counts as before the key.
probe_before(code, key, inclusive) ==
    \/ code.tag = "None"
    \/ IF inclusive THEN LeW(code.val, key) ELSE LtW(code.val, key)

RECURSIVE partition_point_from(_, _, _, _, _)
partition_point_from(codes, key, inclusive, left, right) ==
    IF left < right
    THEN LET mid == left + ((right - left) \div 2)
         IN IF probe_before(codes[mid + 1], key, inclusive)
            THEN partition_point_from(codes, key, inclusive, mid + 1, right)
            ELSE partition_point_from(codes, key, inclusive, left, mid)
    ELSE left

\* partition_point_range(len, pred) over the codes read at 0..len-1.
partition_point_range(codes, key, inclusive) ==
    partition_point_from(codes, key, inclusive, 0, Len(codes))

\* <[T]>::partition_point(pred) of the standard library on the codes of the
\* ranges: the index behind the elements for which pred holds, when they are
\* all at the front; on a slice that is not partitioned the standard library
\* leaves the result open, and the model takes that of partition_point_range.
slice_partition_point(codes, key, inclusive) ==
    IF \A i, j \in 1..Len(codes) :
           (i < j /\ probe_before(codes[j], key, inclusive))
               => probe_before(codes[i], key, inclusive)
    THEN Cardinality({i \in 1..Len(codes) : probe_before(codes[i], key, inclusive)})
    ELSE partition_point_range(codes, key, inclusive)

\* Vec::get(index as usize) on a list of names.
name_get(names, index) ==
    IF index < Len(names) THEN Some(names[index + 1]) ELSE None

\* Vec::get(index as usize) with a u32 index.
name_get_u32(names, index) ==
    IF FitsIndex(index) THEN name_get(names, Nat32(index)) ELSE None

range_postal_codes(database) ==
    SeqOf([i \in 1..Len(database.ranges) |-> Some(database.ranges[i].postal_code)],
          Len(database.ranges))

\* The scan of Database::lookup from index (0-based) up to end.
RECURSIVE owned_scan(_, _, _, _)
owned_scan(database, house_number, index, end) ==
    IF index >= end THEN None
    ELSE IF checked_add_u32(database.ranges[index + 1].start,
                            Wide(database.ranges[index + 1].length)).tag = "None"
    THEN owned_scan(database, house_number, index + 1, end)
    ELSE IF /\ LeW(database.ranges[index + 1].start, house_number)
            /\ LeW(house_number, AddW(database.ranges[index + 1].start,
                                      Wide(database.ranges[index + 1].length)))
    THEN Try(name_get_u32(database.public_spaces,
                          database.ranges[index + 1].public_space_index),
             LAMBDA public_space_name :
         Try(name_get(database.localities, database.ranges[index + 1].locality_index),
             LAMBDA locality_name :
         Some(<<public_space_name, locality_name>>)))
    ELSE owned_scan(database, house_number, index + 1, end)

\* Database::lookup, lines 42-59: the two searches, then the scan.
owned_search(database, codes, pc_encoded, house_number) ==
    owned_scan(database, house_number,
               slice_partition_point(codes, pc_encoded, FALSE),
               slice_partition_point(codes, pc_encoded, TRUE))

\* Database::lookup: Ok(the Option it returns), or Panic.
owned_lookup(database, postalcode, house_number, checks) ==
    IF normalize_postalcode(postalcode).tag = "None" THEN Ok(None)
    ELSE
    Try(encode_pc(normalize_postalcode(postalcode).val, checks), LAMBDA pc_encoded :
    Returned(owned_search(database, range_postal_codes(database), pc_encoded,
                          house_number)))

-----------------------------------------------------------------------------
(* database/encode.rs: the writer *)

\* u32::to_le_bytes, u16::to_le_bytes
to_le_bytes_u32(x) == <<x[2] % Byte, x[2] \div Byte, x[1] % Byte, x[1] \div Byte>>
to_le_bytes_u16(n) == <<n % Byte, n \div Byte>>

\* u32::from_le_bytes and u16::from_le_bytes on the bytes at 1-based position p.
from_le_bytes_u32(bytes, p) ==
    <<bytes[p + 2] + Byte * bytes[p + 3], bytes[p] + Byte * bytes[p + 1]>>
from_le_bytes_u16(bytes, p) == bytes[p] + Byte * bytes[p + 1]

DATABASE_MAGIC == <<66, 65, 71, 49>>

RECURSIVE concat_names(_, _)
concat_names(names, i) ==
    IF i > Len(names) THEN <<>> ELSE names[i] \o concat_names(names, i + 1)

\* The offsets table of a list of names: 0, then the running total of the
\* lengths (offset.saturating_add(name.len() as u32); the modelled names
\* are far shorter than 2^32 bytes together).
RECURSIVE offsets_table(_, _, _)
offsets_table(names, i, offset) ==
    to_le_bytes_u32(Wide(offset))
    \o (IF i > Len(names) THEN <<>>
        ELSE offsets_table(names, i + 1, offset + Len(names[i])))

range_record(range) ==
    to_le_bytes_u32(range.postal_code)
    \o to_le_bytes_u32(range.start)
    \o to_le_bytes_u16(range.length)
    \o to_le_bytes_u32(range.public_space_index)
    \o to_le_bytes_u16(range.locality_index)

RECURSIVE range_records(_, _)
range_records(rs, i) ==
    IF i > Len(rs) THEN <<>> ELSE range_record(rs[i]) \o range_records(rs, i + 1)

\* The nine header words of write_database (the modelled sections are far
\* shorter than 2^32 bytes, so no sum wraps and no "as u32" truncates).
header_bytes(database, locality_data_len, public_space_data_len) ==
    LET locality_data_offset ==
            DATABASE_HEADER_SIZE + (Len(database.localities) + 1) * 4
        public_space_offsets_offset == locality_data_offset + locality_data_len
        public_space_data_offset ==
            public_space_offsets_offset + (Len(database.public_spaces) + 1) * 4
        ranges_offset == public_space_data_offset + public_space_data_len
    IN DATABASE_MAGIC
       \o to_le_bytes_u32(Wide(Len(database.localities)))
       \o to_le_bytes_u32(Wide(Len(database.public_spaces)))
       \o to_le_bytes_u32(Wide(Len(database.ranges)))
       \o to_le_bytes_u32(Wide(DATABASE_HEADER_SIZE))
       \o to_le_bytes_u32(Wide(locality_data_offset))
       \o to_le_bytes_u32(Wide(public_space_offsets_offset))
       \o to_le_bytes_u32(Wide(public_space_data_offset))
       \o to_le_bytes_u32(Wide(ranges_offset))

\* Database::encode / write_database: the bytes written.
write_database(database) ==
    header_bytes(database,
                 Len(concat_names(database.localities, 1)),
                 Len(concat_names(database.public_spaces, 1)))
    \o offsets_table(database.localities, 1, 0)
    \o concat_names(database.localities, 1)
    \o offsets_table(database.public_spaces, 1, 0)
    \o concat_names(database.public_spaces, 1)
    \o range_records(database.ranges, 1)

(* database/encode.rs: the arithmetic of the writer on names of any length.
   A list of names is given by the lengths of its names, each a usize. *)

\* usize `+` and `* 4`: panic on overflow with overflow checks, wrap without.
plus_usize(a, b, usize_bits, checks) ==
    IF usize_bits = 64 \/ FitsU32(AddW(a, b)) THEN Ok(AddW(a, b))
    ELSE IF checks THEN Panic ELSE Ok(WrapU32(AddW(a, b)))

times_4_usize(a, usize_bits, checks) ==
    IF usize_bits = 64 \/ FitsU32(Mul4W(a)) THEN Ok(Mul4W(a))
    ELSE IF checks THEN Panic ELSE Ok(WrapU32(Mul4W(a)))

\* iter().map(|name| name.len()).sum() from name i on, onto total
RECURSIVE sum_lens(_, _, _, _, _)
sum_lens(lens, i, total, usize_bits, checks) ==
    IF i > Len(lens) THEN Ok(total)
    ELSE Try(plus_usize(total, lens[i], usize_bits, checks), LAMBDA next :
         sum_lens(lens, i + 1, next, usize_bits, checks))

\* u32::try_from(len).map_err(..)
count_u32(len) == IF FitsU32(Wide(len)) THEN Ok(Wide(len)) ELSE Err("InvalidInput")

\* x as u32
as_u32(x) == WrapU32(x)

\* u32::saturating_add
saturating_add_u32(a, b) == IF FitsU32(AddW(a, b)) THEN AddW(a, b) ELSE U32_MAX

\* (count as usize + 1) * 4
table_len(count, usize_bits, checks) ==
    Try(plus_usize(count, Wide(1), usize_bits, checks), LAMBDA entries :
    times_4_usize(entries, usize_bits, checks))

\* The header word written for a computed offset: (offset as u32).
header_word(x) == Ok(as_u32(x))

\* write_database, lines 54-74: the five offsets of the header as written.
section_offsets(locality_count, public_space_count, locality_lens, public_space_lens, usize_bits, checks) ==
    Try(table_len(locality_count, usize_bits, checks), LAMBDA locality_offsets_len :
    Try(plus_usize(Wide(DATABASE_HEADER_SIZE), locality_offsets_len, usize_bits, checks),
        LAMBDA locality_data_offset :
    Try(sum_lens(locality_lens, 1, Wide(0), usize_bits, checks), LAMBDA locality_data_len :
    Try(plus_usize(locality_data_offset, locality_data_len, usize_bits, checks),
        LAMBDA public_space_offsets_offset :
    Try(table_len(public_space_count, usize_bits, checks), LAMBDA public_space_offsets_len :
    Try(plus_usize(public_space_offsets_offset, public_space_offsets_len, usize_bits, checks),
        LAMBDA public_space_data_offset :
    Try(sum_lens(public_space_lens, 1, Wide(0), usize_bits, checks),
        LAMBDA public_space_data_len :
    Try(plus_usize(public_space_data_offset, public_space_data_len, usize_bits, checks),
        LAMBDA ranges_offset :
    Try(header_word(Wide(DATABASE_HEADER_SIZE)), LAMBDA w1 :
    Try(header_word(locality_data_offset), LAMBDA w2 :
    Try(header_word(public_space_offsets_offset), LAMBDA w3 :
    Try(header_word(public_space_data_offset), LAMBDA w4 :
    Try(header_word(ranges_offset), LAMBDA w5 :
    Ok([locality_offsets_offset |-> w1,
        locality_data_offset |-> w2,
        public_space_offsets_offset |-> w3,
        public_space_data_offset |-> w4,
        ranges_offset |-> w5]))))))))))))))

\* write_database, lines 76-81 and 87-92: the entries of an offsets table
\* behind the first, from name i on.
RECURSIVE name_offsets(_, _, _)
name_offsets(lens, i, offset) ==
    IF i > Len(lens) THEN <<>>
    ELSE <<saturating_add_u32(offset, as_u32(lens[i]))>>
             \o name_offsets(lens, i + 1, saturating_add_u32(offset, as_u32(lens[i])))

\* Database::encode on a database of names of the given lengths: Ok(the
\* header and the offsets tables written), Err or Panic.
encode_layout(sized, usize_bits, checks) ==
    Try(count_u32(Len(sized.localities)), LAMBDA locality_count :
    Try(count_u32(Len(sized.public_spaces)), LAMBDA public_space_count :
    Try(count_u32(sized.ranges), LAMBDA range_count :
    Try(section_offsets(locality_count, public_space_count, sized.localities,
                        sized.public_spaces, usize_bits, checks), LAMBDA header :
    Ok([header |-> header,
        locality_offsets |-> <<Wide(0)>> \o name_offsets(sized.localities, 1, Wide(0)),
        public_space_offsets |->
            <<Wide(0)>> \o name_offsets(sized.public_spaces, 1, Wide(0))])))))

-----------------------------------------------------------------------------
(* usize arithmetic: a pair of limbs like a u32, the first limb unbounded.
   Every modelled usize is a u32, a sum of two of them or a product by 4 or
   16, so it is below 2^37: on a 64-bit target none overflows. *)

fits_usize(x, b) == b.usize_bits = 64 \/ FitsU32(x)

\* a + b on usize: panics on overflow with overflow checks, wraps without.
add_usize(a, b, b_) ==
    LET sum == AddW(a, b)
    IN IF fits_usize(sum, b_) THEN Ok(sum)
       ELSE IF b_.overflow_checks THEN Panic ELSE Ok(WrapU32(sum))

checked_add_usize(a, b, b_) ==
    LET sum == AddW(a, b) IN IF fits_usize(sum, b_) THEN Some(sum) ELSE None

checked_mul_4_usize(a, b_) ==
    LET product == Mul4W(a) IN IF fits_usize(product, b_) THEN Some(product) ELSE None
checked_mul_16_usize(a, b_) ==
    LET product == Mul16W(a) IN IF fits_usize(product, b_) THEN Some(product) ELSE None

(* database/rw.rs *)

\* bytes.get(offset..offset + width): Some(the 1-based position of the first
\* byte), None when the range leaves the slice, Panic when offset + width
\* overflows with overflow checks (a wrapped end is below offset: None).
get_range(bytes, offset, width, b_) ==
    Try(add_usize(offset, Wide(width), b_), LAMBDA end :
    IF LtW(end, offset) \/ LtW(Wide(Len(bytes)), end) THEN None
    ELSE Some(Nat32(offset) + 1))

read_u32_bytes(bytes, offset, b_) ==
    Try(get_range(bytes, offset, 4, b_), LAMBDA at : Some(from_le_bytes_u32(bytes, at)))

read_u16_bytes(bytes, offset, b_) ==
    Try(get_range(bytes, offset, 2, b_), LAMBDA at : Some(from_le_bytes_u16(bytes, at)))

(* database/layout.rs *)

\* Header::from_reader on the stream: the magic, eight words, validate_base.
header_from_reader(stream) ==
    IF Len(stream) < 4 THEN Err("DecompressionFailed")
    ELSE IF SubSeq(stream, 1, 4) # DATABASE_MAGIC THEN Err("InvalidMagic")
    ELSE IF Len(stream) < DATABASE_HEADER_SIZE THEN Err("DecompressionFailed")
    ELSE IF from_le_bytes_u32(stream, 17) # Wide(DATABASE_HEADER_SIZE)
         THEN Err("InvalidLayout")
    ELSE Ok([locality_count |-> from_le_bytes_u32(stream, 5),
             public_space_count |-> from_le_bytes_u32(stream, 9),
             range_count |-> from_le_bytes_u32(stream, 13),
             locality_offsets_offset |-> from_le_bytes_u32(stream, 17),
             locality_data_offset |-> from_le_bytes_u32(stream, 21),
             public_space_offsets_offset |-> from_le_bytes_u32(stream, 25),
             public_space_data_offset |-> from_le_bytes_u32(stream, 29),
             ranges_offset |-> from_le_bytes_u32(stream, 33)])

\* Header::from_bytes
header_from_bytes(bytes) ==
    IF Len(bytes) < DATABASE_HEADER_SIZE THEN Err("TooShort")
    ELSE header_from_reader(bytes)

\* locality_offsets_len / public_space_offsets_len:
\* (count as usize + 1).checked_mul(4).ok_or(InvalidLayout)
offsets_len(count, b_) ==
    Try(add_usize(count, Wide(1), b_), LAMBDA n :
    OkOr(checked_mul_4_usize(n, b_), "InvalidLayout"))

\* expected_locality_data_offset / expected_public_space_data_offset
expected_data_offset(offsets_offset, count, b_) ==
    Try(offsets_len(count, b_), LAMBDA len :
    OkOr(checked_add_usize(offsets_offset, len, b_), "InvalidLayout"))

\* validate_offsets_iter over OffsetsBytesIter::new(bytes, base, count), from
\* the item at index on; prev is the last value seen.
RECURSIVE validate_offsets_bytes(_, _, _, _, _, _)
validate_offsets_bytes(bytes, base, count, index, prev, b_) ==
    IF ~LtW(index, count)
    THEN IF index = Wide(0) THEN Err("InvalidLayout") ELSE Ok(prev)
    ELSE
    Try(OkOr(checked_mul_4_usize(index, b_), "InvalidLayout"), LAMBDA delta :
    Try(OkOr(checked_add_usize(base, delta, b_), "InvalidLayout"), LAMBDA offset :
    Try(OkOr(read_u32_bytes(bytes, offset, b_), "TooShort"), LAMBDA value :
    IF index = Wide(0) /\ value # Wide(0) THEN Err("InvalidLayout")
    ELSE IF LtW(value, prev) THEN Err("InvalidLayout")
    ELSE validate_offsets_bytes(bytes, base, count, AddW(index, Wide(1)), value, b_))))

\* validate_offsets_iter over a list of offsets already read.
RECURSIVE validate_offsets_list(_, _, _)
validate_offsets_list(offsets, i, prev) ==
    IF i > Len(offsets)
    THEN IF i = 1 THEN Err("InvalidLayout") ELSE Ok(prev)
    ELSE IF i = 1 /\ offsets[i] # Wide(0) THEN Err("InvalidLayout")
    ELSE IF LtW(offsets[i], prev) THEN Err("InvalidLayout")
    ELSE validate_offsets_list(offsets, i + 1, offsets[i])

(* database/view.rs *)

RANGE_RECORD_SIZE == 16

\* from_bytes, lines 22-46 for the localities and 54-78 for the public
\* spaces: the checks of one offsets table; Ok(the length of its data).
view_section(bytes, count, offsets_offset, data_offset, b_) ==
    Try(offsets_len(count, b_), LAMBDA len :
    Try(OkOr(checked_add_usize(offsets_offset, len, b_), "InvalidLayout"), LAMBDA end :
    Try(expected_data_offset(offsets_offset, count, b_), LAMBDA expected :
    IF LtW(Wide(Len(bytes)), end) \/ data_offset # expected THEN Err("InvalidLayout")
    ELSE
    Try(OkOr(checked_add_u32(count, Wide(1)), "InvalidLayout"), LAMBDA offsets_count :
    Try(validate_offsets_bytes(bytes, offsets_offset, offsets_count,
                               Wide(0), Wide(0), b_), LAMBDA data_len :
    IF data_len = Wide(0) /\ count # Wide(0) THEN Err("InvalidLayout")
    ELSE Ok(data_len))))))

\* from_bytes, lines 80-94: Ok(TRUE) when the range records lie where the
\* header says and inside the slice.
view_ranges(bytes, header, public_space_data_len, b_) ==
    Try(OkOr(checked_add_usize(header.public_space_data_offset,
                               public_space_data_len, b_), "InvalidLayout"),
        LAMBDA expected :
    IF header.ranges_offset # expected THEN Err("InvalidLayout")
    ELSE
    Try(OkOr(checked_mul_16_usize(header.range_count, b_), "InvalidLayout"),
        LAMBDA ranges_len :
    Try(OkOr(checked_add_usize(header.ranges_offset, ranges_len, b_), "InvalidLayout"),
        LAMBDA ranges_end :
    IF LtW(Wide(Len(bytes)), ranges_end) THEN Err("InvalidLayout") ELSE Ok(TRUE))))

\* DatabaseView::from_bytes: Ok(the view's fields; the bytes stay in the
\* file), Err(a DatabaseError) or Panic.
from_bytes(bytes, b_) ==
    Try(header_from_bytes(bytes), LAMBDA header :
    Try(view_section(bytes, header.locality_count, header.locality_offsets_offset,
                     header.locality_data_offset, b_), LAMBDA locality_data_len :
    Try(OkOr(checked_add_usize(header.locality_data_offset, locality_data_len, b_),
             "InvalidLayout"), LAMBDA expected :
    IF header.public_space_offsets_offset # expected THEN Err("InvalidLayout")
    ELSE
    Try(view_section(bytes, header.public_space_count,
                     header.public_space_offsets_offset,
                     header.public_space_data_offset, b_), LAMBDA public_space_data_len :
    Try(view_ranges(bytes, header, public_space_data_len, b_), LAMBDA inside :
    Ok([locality_count |-> header.locality_count,
        public_space_count |-> header.public_space_count,
        range_count |-> header.range_count,
        locality_offsets_offset |-> header.locality_offsets_offset,
        locality_data_offset |-> header.locality_data_offset,
        locality_data_end |-> header.public_space_offsets_offset,
        public_space_offsets_offset |-> header.public_space_offsets_offset,
        public_space_data_offset |-> header.public_space_data_offset,
        public_space_data_end |-> header.ranges_offset,
        ranges_offset |-> header.ranges_offset]))))))

\* DatabaseView::range_offset(index)
range_offset(v, bytes, index, b_) ==
    Try(checked_mul_16_usize(Wide(index), b_), LAMBDA offset :
    Try(checked_add_usize(v.ranges_offset, offset, b_), LAMBDA base :
    Try(add_usize(base, Wide(RANGE_RECORD_SIZE), b_), LAMBDA end :
    IF LeW(end, Wide(Len(bytes))) THEN Some(base) ELSE None)))

\* DatabaseView::range_postal_code(index)
range_postal_code(v, bytes, index, b_) ==
    Try(range_offset(v, bytes, index, b_), LAMBDA base : read_u32_bytes(bytes, base, b_))

\* DatabaseView::range_at(index); base + 4 .. base + 14 lie below
\* base + RANGE_RECORD_SIZE, which range_offset has bounded by the length.
range_at(v, bytes, index, b_) ==
    Try(range_offset(v, bytes, index, b_), LAMBDA base :
    Some([start |-> from_le_bytes_u32(bytes, Nat32(base) + 5),
          length |-> from_le_bytes_u16(bytes, Nat32(base) + 9),
          public_space_index |-> from_le_bytes_u32(bytes, Nat32(base) + 11),
          locality_index |-> from_le_bytes_u16(bytes, Nat32(base) + 15)]))

(* std::str::from_utf8 *)

IsCont(bytes, i) == i <= Len(bytes) /\ bytes[i] >= 128 /\ bytes[i] <= 191

\* The length of the well-formed UTF-8 sequence that starts at i, or 0.
utf8_sequence_len(bytes, i) ==
    LET c == bytes[i]
        second == IF i + 1 <= Len(bytes) THEN bytes[i + 1] ELSE 0
    IN IF c < 128 THEN 1
       ELSE IF c >= 194 /\ c <= 223
            THEN IF IsCont(bytes, i + 1) THEN 2 ELSE 0
       ELSE IF c >= 224 /\ c <= 239
            THEN IF /\ IsCont(bytes, i + 1)
                    /\ IsCont(bytes, i + 2)
                    /\ (c = 224 => second >= 160)
                    /\ (c = 237 => second <= 159)
                 THEN 3 ELSE 0
       ELSE IF c >= 240 /\ c <= 244
            THEN IF /\ IsCont(bytes, i + 1)
                    /\ IsCont(bytes, i + 2)
                    /\ IsCont(bytes, i + 3)
                    /\ (c = 240 => second >= 144)
                    /\ (c = 244 => second <= 143)
                 THEN 4 ELSE 0
       ELSE 0

RECURSIVE is_utf8_from(_, _)
is_utf8_from(bytes, i) ==
    IF i > Len(bytes) THEN TRUE
    ELSE IF utf8_sequence_len(bytes, i) = 0 THEN FALSE
    ELSE is_utf8_from(bytes, i + utf8_sequence_len(bytes, i))

from_utf8(bytes) == IF is_utf8_from(bytes, 1) THEN Some(bytes) ELSE None

\* DatabaseView::name_at; index < count, and the offsets table of count + 1
\* words was found inside the slice by from_bytes, so the two sums of line
\* 172-173 stay far below the width of usize.
\* The lookup of a name that takes the first entry for an index at or beyond
\* the count.
name_at_or_first(bytes, offsets_offset, data_offset, data_end, index, count, b_) ==
    IF count = Wide(0) THEN None
    ELSE
    Try(read_u32_bytes(bytes, AddW(offsets_offset,
                                   Mul4W(IF LtW(index, count) THEN index ELSE Wide(0))),
                       b_), LAMBDA start :
    Try(read_u32_bytes(bytes, AddW(offsets_offset,
                                   Mul4W(AddW(IF LtW(index, count) THEN index ELSE Wide(0),
                                              Wide(1)))), b_),
        LAMBDA end :
    IF LtW(end, start) THEN None
    ELSE
    Try(checked_add_usize(data_offset, start, b_), LAMBDA start_abs :
    Try(checked_add_usize(data_offset, end, b_), LAMBDA end_abs :
    IF LtW(data_end, end_abs) \/ LtW(end_abs, start_abs) THEN None
    ELSE IF LtW(Wide(Len(bytes)), end_abs) THEN None
    ELSE from_utf8(SubSeq(bytes, Nat32(start_abs) + 1, Nat32(end_abs)))))))

name_at(bytes, offsets_offset, data_offset, data_end, index, count, b_) ==
    IF ~LtW(index, count) THEN None
    ELSE
    Try(read_u32_bytes(bytes, AddW(offsets_offset, Mul4W(index)), b_), LAMBDA start :
    Try(read_u32_bytes(bytes, AddW(offsets_offset, Mul4W(AddW(index, Wide(1)))), b_),
        LAMBDA end :
    IF LtW(end, start) THEN None
    ELSE
    Try(checked_add_usize(data_offset, start, b_), LAMBDA start_abs :
    Try(checked_add_usize(data_offset, end, b_), LAMBDA end_abs :
    IF LtW(data_end, end_abs) \/ LtW(end_abs, start_abs) THEN None
    ELSE IF LtW(Wide(Len(bytes)), end_abs) THEN None
    ELSE from_utf8(SubSeq(bytes, Nat32(start_abs) + 1, Nat32(end_abs)))))))

\* DatabaseView::locality_name and public_space_name
view_locality_name(v, bytes, index, b_) ==
    name_at(bytes, v.locality_offsets_offset, v.locality_data_offset,
            v.locality_data_end, Wide(index), v.locality_count, b_)
view_public_space_name(v, bytes, index, b_) ==
    name_at(bytes, v.public_space_offsets_offset, v.public_space_data_offset,
            v.public_space_data_end, index, v.public_space_count, b_)

(* database/lookup.rs: the zero-copy lookup *)

\* The codes the two searches can probe: range_postal_code(0 .. range_count-1).
view_postal_codes(v, bytes, b_) ==
    SeqOf([i \in 1..Nat32(v.range_count) |-> range_postal_code(v, bytes, i - 1, b_)],
          Nat32(v.range_count))

\* The scan of DatabaseView::lookup from index (0-based) up to end.
RECURSIVE view_scan(_, _, _, _, _, _)
view_scan(v, bytes, house_number, index, end, b_) ==
    IF index >= end THEN None
    ELSE
    Try(range_at(v, bytes, index, b_), LAMBDA range :
    Try(checked_add_u32(range.start, Wide(range.length)), LAMBDA range_end :
    IF LeW(range.start, house_number) /\ LeW(house_number, range_end)
    THEN Try(view_public_space_name(v, bytes, range.public_space_index, b_),
             LAMBDA public_space :
         Try(view_locality_name(v, bytes, range.locality_index, b_), LAMBDA locality :
         Some(<<public_space, locality>>)))
    ELSE view_scan(v, bytes, house_number, index + 1, end, b_)))

\* DatabaseView::lookup, lines 13-33: the two searches over the codes, then
\* the scan between the positions they return.
view_search(v, bytes, codes, pc_encoded, house_number, b_) ==
    view_scan(v, bytes, house_number,
              partition_point_range(codes, pc_encoded, FALSE),
              partition_point_range(codes, pc_encoded, TRUE), b_)

\* DatabaseView::lookup: Ok(the Option it returns), or Panic.
view_lookup(v, bytes, postalcode, house_number, b_) ==
    IF normalize_postalcode(postalcode).tag = "None" THEN Ok(None)
    ELSE
    Try(encode_pc(normalize_postalcode(postalcode).val, b_.overflow_checks),
        LAMBDA pc_encoded :
    Returned(view_search(v, bytes, view_postal_codes(v, bytes, b_), pc_encoded,
                         house_number, b_)))

(* database/decode.rs: the owned decoder *)

\* read_offsets(reader, count) at 0-based position pos of the stream.
read_offsets(stream, pos, count) ==
    IF LtW(Wide(Len(stream)), AddW(Wide(pos), Mul4W(count)))
    THEN Err("DecompressionFailed")
    ELSE Ok(SeqOf([i \in 1..Nat32(count) |-> from_le_bytes_u32(stream, pos + 4 * i - 3)],
                  Nat32(count)))

\* decode_names from the window that starts at offsets[i].
RECURSIVE decode_names_from(_, _, _)
decode_names_from(offsets, bytes, i) ==
    IF i >= Len(offsets) THEN Ok(<<>>)
    ELSE IF LtW(offsets[i + 1], offsets[i]) \/ LtW(Wide(Len(bytes)), offsets[i + 1])
         THEN Err("InvalidLayout")
    ELSE LET name == from_utf8(SubSeq(bytes, Nat32(offsets[i]) + 1, Nat32(offsets[i + 1])))
             rest == decode_names_from(offsets, bytes, i + 1)
         IN IF name.tag = "None" THEN Err("InvalidLayout")
            ELSE IF rest.tag # "Ok" THEN rest
            ELSE Ok(<<name.val>> \o rest.val)

decode_names(offsets, bytes) ==
    IF Len(offsets) < 2 THEN Err("InvalidLayout")
    ELSE decode_names_from(offsets, bytes, 1)

\* from_reader, lines 25-34 for the localities and 42-52 for the public
\* spaces, reading at pos: Ok(the names, the length of their data).
owned_section(stream, pos, count, offsets_offset, data_offset, b_) ==
    Try(add_usize(count, Wide(1), b_), LAMBDA n :
    Try(read_offsets(stream, pos, n), LAMBDA offsets :
    Try(validate_offsets_list(offsets, 1, Wide(0)), LAMBDA data_len :
    Try(expected_data_offset(offsets_offset, count, b_), LAMBDA expected :
    IF data_offset # expected THEN Err("InvalidLayout")
    ELSE IF LtW(Wide(Len(stream)), AddW(Wide(pos + 4 * Len(offsets)), data_len))
    THEN Err("DecompressionFailed")
    ELSE Try(decode_names(offsets,
                          SubSeq(stream, pos + 4 * Len(offsets) + 1,
                                 pos + 4 * Len(offsets) + Nat32(data_len))),
             LAMBDA names :
             Ok([names |-> names,
                 data_len |-> data_len,
                 pos |-> pos + 4 * Len(offsets) + Nat32(data_len)]))))))

\* The range record read at 0-based position pos.
read_range(stream, pos) ==
    [postal_code |-> from_le_bytes_u32(stream, pos + 1),
     start |-> from_le_bytes_u32(stream, pos + 5),
     length |-> from_le_bytes_u16(stream, pos + 9),
     public_space_index |-> from_le_bytes_u32(stream, pos + 11),
     locality_index |-> from_le_bytes_u16(stream, pos + 15)]

\* from_reader, lines 59-74: range_count records, each read failing at the
\* end of the stream.
read_ranges(stream, pos, range_count) ==
    IF LtW(Wide(Len(stream)), AddW(Wide(pos), Mul16W(range_count)))
    THEN Err("DecompressionFailed")
    ELSE Ok(SeqOf([i \in 1..Nat32(range_count) |->
                      read_range(stream, pos + RANGE_RECORD_SIZE * (i - 1))],
                  Nat32(range_count)))

\* Database::from_reader: Ok(the Database), Err(a DatabaseError) or Panic.
from_reader(stream, b_) ==
    Try(header_from_reader(stream), LAMBDA header :
    Try(owned_section(stream, DATABASE_HEADER_SIZE, header.locality_count,
                      header.locality_offsets_offset, header.locality_data_offset, b_),
        LAMBDA l :
    Try(OkOr(checked_add_usize(header.locality_data_offset, l.data_len, b_),
             "InvalidLayout"), LAMBDA expected_offsets :
    IF header.public_space_offsets_offset # expected_offsets THEN Err("InvalidLayout")
    ELSE
    Try(owned_section(stream, l.pos, header.public_space_count,
                      header.public_space_offsets_offset,
                      header.public_space_data_offset, b_), LAMBDA p :
    Try(OkOr(checked_add_usize(header.public_space_data_offset, p.data_len, b_),
             "InvalidLayout"), LAMBDA expected_ranges :
    IF header.ranges_offset # expected_ranges THEN Err("InvalidLayout")
    ELSE
    Try(read_ranges(stream, p.pos, header.range_count), LAMBDA rs :
    Ok([localities |-> l.names, public_spaces |-> p.names, ranges |-> rs])))))))

-----------------------------------------------------------------------------
(* database/mod.rs, database/lookup.rs: a lookup on a shared handle, one
   step at a time.  A handle h is [kind |-> "Decoded", database |-> ..] or
   [kind |-> "View", view |-> .., bytes |-> ..]; a call in progress is
   [pc |-> "scan", query, index, end, result], a finished one has pc "done"
   and the returned value (Ok(an Option), or Panic) as its result. *)

Finished(q, returned) ==
    [pc |-> "done", query |-> q, index |-> 0, end |-> 0, result |-> returned]

Scanning(q, start, end) ==
    [pc |-> "scan", query |-> q, index |-> start, end |-> end, result |-> Nil]

\* The postal codes the two searches probe.
handle_postal_codes(h, b_) ==
    IF h.kind = "Decoded" THEN range_postal_codes(h.database)
    ELSE view_postal_codes(h.view, h.bytes, b_)

\* One search of the lookup: the slice's partition_point on the decoded
\* ranges, partition_point_range on the view.
handle_partition_point(h, pc_encoded, inclusive, b_) ==
    IF h.kind = "Decoded"
    THEN slice_partition_point(handle_postal_codes(h, b_), pc_encoded, inclusive)
    ELSE partition_point_range(handle_postal_codes(h, b_), pc_encoded, inclusive)

\* DatabaseHandle::lookup up to the loop: normalize, encode, both searches.
lookup_begin(h, q, b_) ==
    IF normalize_postalcode(q.postalcode).tag = "None" THEN Finished(q, Ok(None))
    ELSE IF encode_pc(normalize_postalcode(q.postalcode).val, b_.overflow_checks).tag = "Panic"
    THEN Finished(q, Panic)
    ELSE Scanning(q,
             handle_partition_point(h,
                 encode_pc(normalize_postalcode(q.postalcode).val, b_.overflow_checks).val,
                 FALSE, b_),
             handle_partition_point(h,
                 encode_pc(normalize_postalcode(q.postalcode).val, b_.overflow_checks).val,
                 TRUE, b_))

\* One iteration of the loop of Database::lookup, or its exit.
owned_iterate(database, rd) ==
    IF rd.index >= rd.end THEN Finished(rd.query, Ok(None))
    ELSE IF checked_add_u32(database.ranges[rd.index + 1].start,
                            Wide(database.ranges[rd.index + 1].length)).tag = "None"
    THEN [rd EXCEPT !.index = @ + 1]
    ELSE IF /\ LeW(database.ranges[rd.index + 1].start, rd.query.house_number)
            /\ LeW(rd.query.house_number,
                   AddW(database.ranges[rd.index + 1].start,
                        Wide(database.ranges[rd.index + 1].length)))
    THEN Finished(rd.query,
             Returned(Try(name_get_u32(database.public_spaces,
                                       database.ranges[rd.index + 1].public_space_index),
                          LAMBDA public_space_name :
                      Try(name_get(database.localities,
                                   database.ranges[rd.index + 1].locality_index),
                          LAMBDA locality_name :
                      Some(<<public_space_name, locality_name>>)))))
    ELSE [rd EXCEPT !.index = @ + 1]

\* What one iteration of the loop of DatabaseView::lookup returns: Some or
\* None (also by `?`), Panic, or "Next" to go on with the next index.
view_iteration(v, bytes, house_number, index, b_) ==
    Try(range_at(v, bytes, index, b_), LAMBDA range :
    Try(checked_add_u32(range.start, Wide(range.length)), LAMBDA range_end :
    IF LeW(range.start, house_number) /\ LeW(house_number, range_end)
    THEN Try(view_public_space_name(v, bytes, range.public_space_index, b_),
             LAMBDA public_space :
         Try(view_locality_name(v, bytes, range.locality_index, b_), LAMBDA locality :
         Some(<<public_space, locality>>)))
    ELSE [tag |-> "Next", val |-> 0]))

view_iterate(v, bytes, rd, b_) ==
    IF rd.index >= rd.end THEN Finished(rd.query, Ok(None))
    ELSE IF view_iteration(v, bytes, rd.query.house_number, rd.index, b_).tag = "Next"
    THEN [rd EXCEPT !.index = @ + 1]
    ELSE Finished(rd.query,
                  Returned(view_iteration(v, bytes, rd.query.house_number, rd.index, b_)))

\* The loop that passes over every second index.
lookup_iterate_skips(h, rd, b_) ==
    IF h.kind = "Decoded"
    THEN IF owned_iterate(h.database, rd).pc = "scan"
         THEN [rd EXCEPT !.index = @ + 2] ELSE owned_iterate(h.database, rd)
    ELSE IF view_iterate(h.view, h.bytes, rd, b_).pc = "scan"
         THEN [rd EXCEPT !.index = @ + 2] ELSE view_iterate(h.view, h.bytes, rd, b_)

\* DatabaseHandle::lookup: the loop of the variant the handle holds.
lookup_iterate(h, rd, b_) ==
    IF h.kind = "Decoded" THEN owned_iterate(h.database, rd)
    ELSE view_iterate(h.view, h.bytes, rd, b_)

\* DatabaseHandle::lookup as one call.
handle_lookup_alone(h, q, b_) ==
    IF h.kind = "Decoded"
    THEN owned_lookup(h.database, q.postalcode, q.house_number, b_.overflow_checks)
    ELSE view_lookup(h.view, h.bytes, q.postalcode, q.house_number, b_)

-----------------------------------------------------------------------------
(* service/mod.rs, service/lookup.rs, service/suggest.rs: one connection.
   Text is a sequence of byte values (ASCII). *)

\* let mut buffer = [0u8; 255]
REQUEST_BUFFER_SIZE == 255

WhiteSpace == {9, 10, 11, 12, 13, 32}

STR_GET == <<71, 69, 84>>
STR_suggest == <<47, 115, 117, 103, 103, 101, 115, 116>>
STR_root == <<47>>
STR_lookup == <<47, 108, 111, 111, 107, 117, 112>>
STR_pc == <<112, 99>>
STR_n == <<110>>
STR_wp == <<119, 112>>

\* The first position from i on whose byte is in S, or Len(s) + 1.
find(s, S, i) ==
    IF \A j \in i..Len(s) : s[j] \notin S THEN Len(s) + 1
    ELSE CHOOSE j \in i..Len(s) : s[j] \in S /\ \A k \in i..(j - 1) : s[k] \notin S

\* The first position from i on whose byte is not in S, or Len(s) + 1.
skip(s, S, i) ==
    IF \A j \in i..Len(s) : s[j] \in S THEN Len(s) + 1
    ELSE CHOOSE j \in i..Len(s) : s[j] \notin S /\ \A k \in i..(j - 1) : s[k] \in S

\* str::split_once(c)
split_once(s, c) ==
    IF find(s, {c}, 1) > Len(s) THEN None
    ELSE Some(<<SubSeq(s, 1, find(s, {c}, 1) - 1),
                SubSeq(s, find(s, {c}, 1) + 1, Len(s))>>)

\* str::split(c), collected
RECURSIVE split(_, _)
split(s, c) ==
    IF find(s, {c}, 1) > Len(s) THEN <<s>>
    ELSE <<SubSeq(s, 1, find(s, {c}, 1) - 1)>>
             \o split(SubSeq(s, find(s, {c}, 1) + 1, Len(s)), c)

\* request.lines().next().unwrap_or_default()
first_line(request) ==
    IF find(request, {10}, 1) > Len(request) THEN request
    ELSE IF find(request, {10}, 1) > 1 /\ request[find(request, {10}, 1) - 1] = 13
    THEN SubSeq(request, 1, find(request, {10}, 1) - 2)
    ELSE SubSeq(request, 1, find(request, {10}, 1) - 1)

\* The token of split_whitespace() that starts at or after position i, and
\* the position behind it.
next_part(line, i) ==
    [part |-> SubSeq(line, skip(line, WhiteSpace, i),
                     find(line, WhiteSpace, skip(line, WhiteSpace, i)) - 1),
     rest |-> find(line, WhiteSpace, skip(line, WhiteSpace, i))]

\* The digits of str::parse::<u32> from position i on, onto acc.
RECURSIVE parse_digits(_, _, _)
parse_digits(s, i, acc) ==
    IF i > Len(s) THEN Some(acc)
    ELSE IF s[i] \notin 48..57 THEN None
    ELSE IF acc[1] * 10 + ((acc[2] * 10 + (s[i] - 48)) \div Limb) >= Limb THEN None
    ELSE parse_digits(s, i + 1,
             <<acc[1] * 10 + ((acc[2] * 10 + (s[i] - 48)) \div Limb),
               (acc[2] * 10 + (s[i] - 48)) % Limb>>)

\* value.parse::<u32>().ok(): digits, after an optional plus sign.
parse_u32(s) ==
    IF Len(s) = 0 THEN None
    ELSE IF s[1] = 43 THEN (IF Len(s) = 1 THEN None ELSE parse_digits(s, 2, <<0, 0>>))
    ELSE parse_digits(s, 1, <<0, 0>>)

Response(status_code, body) ==
    [tag |-> "Response", status_code |-> status_code, body |-> body]

json_error(message) == [error |-> message, pr |-> <<>>, wp |-> <<>>, list |-> <<>>]

json_ok(public_space, locality) ==
    [error |-> "", pr |-> public_space, wp |-> locality, list |-> <<>>]

\* The list of suggestions for a text; the ranking is not modelled, the
\* body keeps the text it was asked for.
json_list(query_text) == [error |-> "", pr |-> <<>>, wp |-> <<>>, list |-> query_text]

is_valid_postal_code(postal_code) ==
    /\ Len(postal_code) = 6
    /\ \A i \in 1..4 : postal_code[i] \in 48..57
    /\ \A i \in 5..6 : postal_code[i] \in 65..90

\* handle_lookup: for pair in query.split('&')
RECURSIVE lookup_params(_, _, _)
lookup_params(pairs, i, acc) ==
    IF i > Len(pairs) THEN acc
    ELSE IF Len(pairs[i]) = 0 THEN lookup_params(pairs, i + 1, acc)
    ELSE IF split_once(pairs[i], 61).tag = "None" THEN lookup_params(pairs, i + 1, acc)
    ELSE IF split_once(pairs[i], 61).val[1] = STR_pc
    THEN lookup_params(pairs, i + 1,
             [acc EXCEPT !.postal_code = Some(split_once(pairs[i], 61).val[2])])
    ELSE IF split_once(pairs[i], 61).val[1] = STR_n
    THEN lookup_params(pairs, i + 1,
             [acc EXCEPT !.house_number = parse_u32(split_once(pairs[i], 61).val[2])])
    ELSE lookup_params(pairs, i + 1, acc)

\* The response of the lookup endpoint, or Panic.
handle_lookup(h, query_string, b_) ==
    LET params == lookup_params(split(query_string, 38), 1,
                                [postal_code |-> None, house_number |-> None])
    IN IF params.postal_code.tag = "None"
       THEN Response(400, json_error("missing postal_code"))
       ELSE IF params.house_number.tag = "None"
       THEN Response(400, json_error("missing house_number"))
       ELSE IF ~is_valid_postal_code(params.postal_code.val)
       THEN Response(400, json_error("invalid postal_code"))
       ELSE LET found == handle_lookup_alone(h,
                             [postalcode |-> params.postal_code.val,
                              house_number |-> params.house_number.val], b_)
            IN IF found.tag = "Panic" THEN Panic
               ELSE IF found.val.tag = "Some"
               THEN Response(200, json_ok(found.val.val[1], found.val.val[2]))
               ELSE Response(404, json_error("address not found"))

\* handle_suggest: for pair in query.split('&')
RECURSIVE suggest_params(_, _, _)
suggest_params(pairs, i, acc) ==
    IF i > Len(pairs) THEN acc
    ELSE IF Len(pairs[i]) = 0 THEN suggest_params(pairs, i + 1, acc)
    ELSE IF split_once(pairs[i], 61).tag = "None" THEN suggest_params(pairs, i + 1, acc)
    ELSE IF split_once(pairs[i], 61).val[1] = STR_wp
    THEN suggest_params(pairs, i + 1, Some(split_once(pairs[i], 61).val[2]))
    ELSE suggest_params(pairs, i + 1, acc)

handle_suggest(h, query_string) ==
    IF suggest_params(split(query_string, 38), 1, None).tag = "None"
    THEN Response(400, json_error("missing wp"))
    ELSE Response(200, json_list(suggest_params(split(query_string, 38), 1, None).val))

\* The part of handle_connection between the read and the write: the
\* response for the bytes in the buffer, or Panic.
route(h, buffer, b_) ==
    LET line == first_line(buffer)
        method == next_part(line, 1).part
        target == next_part(line, next_part(line, 1).rest).part
        path == IF split_once(target, 63).tag = "None" THEN target
                ELSE split_once(target, 63).val[1]
        query_string == IF split_once(target, 63).tag = "None" THEN <<>>
                        ELSE split_once(target, 63).val[2]
    IN IF method # STR_GET THEN Response(405, json_error("method not allowed"))
       ELSE IF path = STR_suggest THEN handle_suggest(h, query_string)
       ELSE IF path = STR_root \/ path = STR_lookup THEN handle_lookup(h, query_string, b_)
       ELSE Response(404, json_error("not found"))

\* handle_connection on a stream [bytes, io]: what it wrote, and how it
\* returned.  io "read_error": stream.read fails; io "write_error": every
\* write on the stream fails.  The buffer takes the first 255 bytes.
handle_connection(h, stream, b_) ==
    IF stream.io = "read_error" THEN [written |-> <<>>, outcome |-> "Err"]
    ELSE IF route(h, SubSeq(stream.bytes, 1, Min(Len(stream.bytes), REQUEST_BUFFER_SIZE)),
                  b_).tag = "Panic"
    THEN [written |-> <<>>, outcome |-> "Panic"]
    ELSE IF stream.io = "write_error" THEN [written |-> <<>>, outcome |-> "Err"]
    ELSE [written |-> <<route(h, SubSeq(stream.bytes, 1,
                                 Min(Len(stream.bytes), REQUEST_BUFFER_SIZE)), b_)>>,
          outcome |-> "Ok"]

\* The task serve_with_shutdown spawns for a connection: the responses
\* written on the stream.
connection_task(h, stream, b_) ==
    IF handle_connection(h, stream, b_).outcome = "Err" /\ stream.io # "write_error"
    THEN handle_connection(h, stream, b_).written
             \o <<Response(500, json_error("io error"))>>
    ELSE handle_connection(h, stream, b_).written

-----------------------------------------------------------------------------
(* create.rs: the builder.  dsk is [zip |-> what is at ZIP_PATH, output |->
   None or Some(the bytes at OUTPUT_PATH)]; env holds what the surroundings
   decide during one call: the download, whether File::create succeeds and
   how many bytes are written before a write fails. *)

\* A build that never finds an output file.
output_present_never(dsk) == FALSE

\* output_path.exists() && output_path.metadata()?.len() > 0
output_present(dsk) == dsk.output.tag = "Some" /\ Len(dsk.output.val) > 0

\* ensure_zip_available: an existing zip is used; otherwise curl runs, and
\* leaves what it leaves at ZIP_PATH.
ensure_zip_available(dsk, env) ==
    IF dsk.zip # "absent" THEN [disk |-> dsk, ok |-> TRUE]
    ELSE [disk |-> [dsk EXCEPT !.zip = env.download.zip], ok |-> env.download.ok]

\* Database::encode: File::create truncates the file or fails; the bytes of
\* write_database reach the file up to the first failing write.
encode(database, dsk, env) ==
    IF ~env.create_ok THEN [disk |-> dsk, created |-> FALSE, ok |-> FALSE]
    ELSE IF env.written < Len(write_database(database))
    THEN [disk |-> [dsk EXCEPT !.output =
                       Some(SubSeq(write_database(database), 1, env.written))],
          created |-> TRUE, ok |-> FALSE]
    ELSE [disk |-> [dsk EXCEPT !.output = Some(write_database(database))],
          created |-> TRUE, ok |-> TRUE]

\* The end of create_database, from the parsed data on.
build_and_encode(parsed, dsk, env, checks) ==
    IF from_parsed_data(parsed, checks).tag # "Ok"
    THEN [disk |-> dsk, outcome |-> from_parsed_data(parsed, checks).tag,
          parsed |-> TRUE, created |-> FALSE]
    ELSE [disk |-> encode(from_parsed_data(parsed, checks).val, dsk, env).disk,
          outcome |-> IF encode(from_parsed_data(parsed, checks).val, dsk, env).ok
                      THEN "Ok" ELSE "Err",
          parsed |-> TRUE,
          created |-> encode(from_parsed_data(parsed, checks).val, dsk, env).created]

\* create_database: [disk |-> the file system it leaves, outcome |-> "Ok",
\* "Err" or "Panic", parsed |-> whether the zip was parsed, created |->
\* whether the output file was created]; from_bag_zip is the parse of the zip.
create_database(dsk, env, from_bag_zip, checks) ==
    IF output_present(dsk)
    THEN [disk |-> dsk, outcome |-> "Ok", parsed |-> FALSE, created |-> FALSE]
    ELSE IF ~ensure_zip_available(dsk, env).ok
    THEN [disk |-> ensure_zip_available(dsk, env).disk, outcome |-> "Err",
          parsed |-> FALSE, created |-> FALSE]
    ELSE IF from_bag_zip[ensure_zip_available(dsk, env).disk.zip].tag # "Ok"
    THEN [disk |-> ensure_zip_available(dsk, env).disk, outcome |-> "Err",
          parsed |-> TRUE, created |-> FALSE]
    ELSE build_and_encode(from_bag_zip[ensure_zip_available(dsk, env).disk.zip].val,
                          ensure_zip_available(dsk, env).disk, env, checks)

-----------------------------------------------------------------------------
(* Inputs of the indexer *)

\* Longest explicit list of locality records.
MaxLocalities == 3

NameA == <<65>>
NameB == <<66>>
NameAB == <<65, 66>>

LocalityIds == {10, 11, 12}
LocalityNames == {NameA, NameB, NameAB}
LocalityRecords == [id : LocalityIds, name : LocalityNames]

SeqsUpTo(S, n) == UNION {[1..k -> S] : k \in 0..n}

\* "L" followed by five decimal digits.
BulkName(i) ==
    <<76, 48 + ((i \div 10000) % 10), 48 + ((i \div 1000) % 10), 48 + ((i \div 100) % 10),
      48 + ((i \div 10) % 10), 48 + (i % 10)>>

\* n records with n distinct names, in turn under two ids.
BulkDistinct(n) ==
    SeqOf([i \in 1..n |-> [id |-> 10 + ((i - 1) % 2), name |-> BulkName(i - 1)]], n)

\* n records that share two names and two ids.
BulkRepeated(n) ==
    SeqOf([i \in 1..n |-> IF 2 * i <= n THEN [id |-> 10, name |-> NameA]
                                        ELSE [id |-> 11, name |-> NameB]], n)

BulkLocalityLists ==
    {BulkDistinct(U16_MAX), BulkDistinct(U16_MAX + 1), BulkDistinct(U16_MAX + 2),
     BulkRepeated(U16_MAX + 2)}

NoData == [localities |-> <<>>, public_spaces |-> <<>>, addresses |-> <<>>]
NoCodec == [a |-> <<>>, b |-> <<>>, na |-> None, nb |-> None, ka |-> Nil, kb |-> Nil]
NoQuery == [postalcode |-> <<>>, house_number |-> <<0, 0>>]
NoResult == [view |-> Nil, owned |-> Nil]
Builds == [overflow_checks : BOOLEAN, usize_bits : {32, 64}]

InitIndex ==
    /\ build = [overflow_checks |-> TRUE, usize_bits |-> 64]
    /\ phase = "parsed"
    /\ codec = NoCodec
    /\ data \in {[NoData EXCEPT !.localities = l] :
                    l \in SeqsUpTo(LocalityRecords, MaxLocalities) \cup BulkLocalityLists}
    /\ loc = Nil
    /\ psm = Nil
    /\ ranges = Nil
    /\ db = Nil
    /\ file = <<>>
    /\ view = Nil
    /\ owned = Nil
    /\ query = NoQuery
    /\ result = NoResult
    /\ disk = Nil
    /\ run = Nil
    /\ readers = Nil
    /\ conn = Nil

\* index_localities(localities)
IndexLocalities ==
    /\ phase = "parsed"
    /\ loc' = index_localities(data.localities)
    /\ phase' = "indexed"
    /\ UNCHANGED <<build, codec, data, psm, ranges, db, file, view, owned, query, result,
                   service>>

NextIndex == IndexLocalities

SpecIndex == InitIndex /\ [][NextIndex]_vars

-----------------------------------------------------------------------------
(* Properties of the indexer, under SpecIndex *)

\* The number of distinct names in a list of records.
DistinctNames(records) == Cardinality({records[i].name : i \in 1..Len(records)})

IndexedOk == phase = "indexed" /\ loc.tag = "Ok"

\* The name the result of index_localities resolves an id to.
ResolvedName(id) == loc.val.locality_names[loc.val.locality_map[id] + 1]

\* C9 as claimed: after index_localities succeeds, every input record's id
\* maps to an index whose name is that record's name, also when an id occurs
\* in more than one record.
C9_EveryRecordResolvesToItsName ==
    IndexedOk =>
        \A k \in 1..Len(data.localities) :
            ResolvedName(data.localities[k].id) = data.localities[k].name

\* C9 as amended: after index_localities succeeds, every input id maps to an
\* index whose name is the name of the last input record with that id (so a
\* record resolves to its own name unless a later record reuses its id with
\* another name); records that share a name share its index.
C9_IdResolvesToLastRecordsName ==
    IndexedOk =>
        /\ \A id \in ids_of(data.localities) :
               /\ loc.val.locality_map[id] < Len(loc.val.locality_names)
               /\ ResolvedName(id) = last_with_id(data.localities, id).name
        /\ DOMAIN loc.val.locality_map = ids_of(data.localities)

\* C9 witness: a successful run on a list in which two records share a name
\* under different ids and an id occurs twice with different names.
C9_Witness ==
    /\ IndexedOk
    /\ \E j, k \in 1..Min(Len(data.localities), MaxLocalities) :
           /\ data.localities[j].id # data.localities[k].id
           /\ data.localities[j].name = data.localities[k].name
    /\ \E j, k \in 1..Min(Len(data.localities), MaxLocalities) :
           /\ j < k
           /\ data.localities[j].id = data.localities[k].id
           /\ data.localities[j].name # data.localities[k].name

\* C10 as claimed: index_localities returns an error exactly when the number
\* of distinct names exceeds 65 536.
C10_ErrIffMoreThan65536 ==
    phase = "indexed" =>
        ((loc.tag = "Err") <=> (DistinctNames(data.localities) > U16_MAX + 1))

\* C10 as amended: index_localities returns an error exactly when the number
\* of distinct names exceeds 65 535 (u16::MAX): 65 536 distinct names are
\* rejected, 65 535 are indexed.
C10_ErrIffMoreThanU16Max ==
    phase = "indexed" =>
        /\ loc.tag \in {"Ok", "Err"}
        /\ (loc.tag = "Err") <=> (DistinctNames(data.localities) > U16_MAX)

\* C10 witness: the run on 65 536 distinct names has ended in the error.
C10_Witness ==
    /\ phase = "indexed"
    /\ loc.tag = "Err"
    /\ DistinctNames(data.localities) = U16_MAX + 1

\* The largest accepted input has been indexed: 65 535 distinct names.
C10_WitnessAccepted ==
    /\ IndexedOk
    /\ Len(loc.val.locality_names) = U16_MAX

-----------------------------------------------------------------------------
(* The key codec on pairs of well-formed postal codes: SpecCodec *)

CodecDigits ==
    {<<48, 48, 48, 48>>, <<48, 48, 48, 49>>, <<48, 48, 49, 48>>, <<48, 57, 57, 57>>,
     <<49, 48, 48, 48>>, <<49, 50, 51, 52>>, <<57, 57, 57, 57>>}
\* A, B, Z and b
CodecLetters == {65, 66, 90, 98}
CodecInputs == {d \o <<l0, l1>> : d \in CodecDigits, l0 \in CodecLetters, l1 \in CodecLetters}

InitCodec ==
    /\ build \in {b \in Builds : b.usize_bits = 64}
    /\ phase = "codec"
    /\ codec \in {[NoCodec EXCEPT !.a = a, !.b = b] : a \in CodecInputs, b \in CodecInputs}
    /\ data = NoData
    /\ loc = Nil
    /\ psm = Nil
    /\ ranges = Nil
    /\ db = Nil
    /\ file = <<>>
    /\ view = Nil
    /\ owned = Nil
    /\ query = NoQuery
    /\ result = NoResult
    /\ disk = Nil
    /\ run = Nil
    /\ readers = Nil
    /\ conn = Nil

\* normalize_postalcode, then encode_pc, on each of the two codes.
EncodePc ==
    /\ phase = "codec"
    /\ codec' = [codec EXCEPT
                    !.na = normalize_postalcode(codec.a),
                    !.nb = normalize_postalcode(codec.b),
                    !.ka = encode_pc(normalize_postalcode(codec.a).val, build.overflow_checks),
                    !.kb = encode_pc(normalize_postalcode(codec.b).val, build.overflow_checks)]
    /\ phase' = "keyed"
    /\ UNCHANGED <<build, data, loc, psm, ranges, db, file, view, owned, query, result,
                   service>>

NextCodec == EncodePc

SpecCodec == InitCodec /\ [][NextCodec]_vars

\* The fields of a normalised well-formed code.
DigitsOf(s) == (s[1] - 48) * 1000 + (s[2] - 48) * 100 + (s[3] - 48) * 10 + (s[4] - 48)
Letter0Of(s) == s[5] - 65
Letter1Of(s) == s[6] - 65

\* The limb pair of digits * 2^18 + l0 * 2^13 + l1 * 2^8, computed without
\* any width: the key when no field overlaps another or leaves the 32 bits.
KeyValue(s) ==
    <<DigitsOf(s) * 4 + (Letter0Of(s) \div 8), (Letter0Of(s) % 8) * 8192 + Letter1Of(s) * 256>>

\* C7: for well-formed postal codes a and b, encode_pc(a) < encode_pc(b)
\* exactly when a < b byte-lexicographically after uppercasing, and the
\* digit and letter fields of the key neither overlap nor overflow 32 bits.
C7_KeyOrderIsCodeOrder ==
    phase = "keyed" =>
        /\ codec.ka.tag = "Ok" /\ codec.kb.tag = "Ok"
        /\ LtW(codec.ka.val, codec.kb.val) <=> LexLess(codec.na.val, codec.nb.val)
        /\ (codec.ka.val = codec.kb.val) <=> (codec.na.val = codec.nb.val)
        /\ \A k \in {<<codec.na.val, codec.ka.val>>, <<codec.nb.val, codec.kb.val>>} :
               /\ DigitsOf(k[1]) < 2 ^ 14
               /\ Letter0Of(k[1]) < 2 ^ 5
               /\ Letter1Of(k[1]) < 2 ^ 5
               /\ k[2] = KeyValue(k[1])
               /\ FitsU32(k[2])

\* C7 witness: two codes with equal digits whose order is decided by the
\* letters alone have been encoded, one of them given in lower case.
C7_Witness ==
    /\ phase = "keyed"
    /\ codec.a = <<57, 57, 57, 57, 65, 90>>
    /\ codec.b = <<57, 57, 57, 57, 98, 65>>
    /\ LtW(codec.ka.val, codec.kb.val)

-----------------------------------------------------------------------------
(* The coalescer on address lists: SpecCoalesce *)

\* Longest list of addresses.
MaxAddresses == 3

PC_1234AB == <<49, 50, 51, 52, 65, 66>>
PC_1234AC == <<49, 50, 51, 52, 65, 67>>
PC_1240AB == <<49, 50, 52, 48, 65, 66>>

\* House numbers of the inputs; the last is u32::MAX.
HouseNumbers == {Wide(1), Wide(2), Wide(3), U32_MAX}

\* Address without the fields the core never reads (id, house_letter,
\* house_number_addition).
AddressRecords ==
    [house_number : HouseNumbers,
     postal_code : {PC_1234AB, PC_1234AC},
     public_space_id : {"ps-1", "ps-2", "missing"}]

PsEntry(p, l) == [public_space_index |-> Wide(p), locality_index |-> l]

\* Public-space maps as index_public_spaces returns them: two streets of one
\* locality, one street name in two localities, two ids of one street.
PublicSpaceMaps ==
    {[id \in {"ps-1", "ps-2"} |-> IF id = "ps-1" THEN PsEntry(0, 0) ELSE PsEntry(1, 0)],
     [id \in {"ps-1", "ps-2"} |-> IF id = "ps-1" THEN PsEntry(0, 1) ELSE PsEntry(0, 0)],
     [id \in {"ps-1", "ps-2"} |-> PsEntry(0, 0)]}

\* n addresses of one street and postal code with the house numbers 1..n.
BulkRun(n) ==
    SeqOf([i \in 1..n |-> [house_number |-> Wide(i), postal_code |-> PC_1234AB,
                           public_space_id |-> "ps-1"]], n)

\* n addresses of one street and postal code with the house numbers first,
\* first + 1, ..
BulkRunFrom(first, n) ==
    SeqOf([i \in 1..n |-> [house_number |-> AddW(first, Wide(i - 1)),
                           postal_code |-> PC_1234AB,
                           public_space_id |-> "ps-1"]], n)

\* Runs that reach and pass the longest range a u16 length can hold; the
\* last one ends at u32::MAX.
BulkAddressLists ==
    {BulkRun(U16_MAX + 1), BulkRun(U16_MAX + 2),
     BulkRunFrom(<<Limb - 2, Limb - 1>>, U16_MAX + 2)}

\* House numbers at both ends of u32.
EdgeHouseNumbers == {Wide(0), <<Limb - 1, Limb - 3>>, <<Limb - 1, Limb - 2>>, U32_MAX}

\* Lists of one street and postal code with house numbers at the ends of u32.
EdgeAddressLists ==
    SeqsUpTo([house_number : EdgeHouseNumbers,
              postal_code : {PC_1234AB},
              public_space_id : {"ps-1"}], MaxAddresses)

InitCoalesce ==
    /\ phase = "mapped"
    /\ codec = NoCodec
    /\ \/ /\ build \in {b \in Builds : b.usize_bits = 64}
          /\ data \in {[NoData EXCEPT !.addresses = a] :
                          a \in SeqsUpTo(AddressRecords, MaxAddresses)}
          /\ psm \in {Ok([names |-> <<NameA, NameB>>, map |-> m]) : m \in PublicSpaceMaps}
       \/ /\ build = [overflow_checks |-> TRUE, usize_bits |-> 64]
          /\ data \in {[NoData EXCEPT !.addresses = a] : a \in BulkAddressLists}
          /\ psm = Ok([names |-> <<NameA, NameB>>,
                       map |-> [id \in {"ps-1", "ps-2"} |-> PsEntry(0, 0)]])
       \/ /\ build \in {b \in Builds : b.usize_bits = 64}
          /\ data \in {[NoData EXCEPT !.addresses = a] : a \in EdgeAddressLists}
          /\ psm = Ok([names |-> <<NameA, NameB>>,
                       map |-> [id \in {"ps-1", "ps-2"} |-> PsEntry(0, 0)]])
    /\ loc = Nil
    /\ ranges = Nil
    /\ db = Nil
    /\ file = <<>>
    /\ view = Nil
    /\ owned = Nil
    /\ query = NoQuery
    /\ result = NoResult
    /\ disk = Nil
    /\ run = Nil
    /\ readers = Nil
    /\ conn = Nil

\* encode_addresses(addresses, &public_spaces_map)
EncodeAddresses ==
    /\ phase = "mapped"
    /\ ranges' = encode_addresses(data.addresses, psm.val.map, build.overflow_checks)
    /\ phase' = "coalesced"
    /\ UNCHANGED <<build, codec, data, loc, psm, db, file, view, owned, query, result,
                   service>>

NextCoalesce == EncodeAddresses

SpecCoalesce == InitCoalesce /\ [][NextCoalesce]_vars

Coalesced == phase = "coalesced" /\ ranges.tag = "Ok"

Resolved(a) == a.public_space_id \in DOMAIN psm.val.map

\* start + length of a range, without any width.
RangeEnd(r) == AddW(r.start, Wide(r.length))
Covers(r, n) == LeW(r.start, n) /\ LeW(n, RangeEnd(r))

\* The key of a well-formed upper-case postal code.
KeyOf(pc) == KeyValue(pc)

\* The emitted ranges of address a's postal code that contain its number.
CoveringByCode(a) ==
    {i \in 1..Len(ranges.val) :
        ranges.val[i].postal_code = KeyOf(a.postal_code) /\ Covers(ranges.val[i], a.house_number)}

\* Those of them that also carry the indices a's public space resolves to.
CoveringByGroup(a) ==
    {i \in CoveringByCode(a) :
        /\ ranges.val[i].public_space_index = psm.val.map[a.public_space_id].public_space_index
        /\ ranges.val[i].locality_index = psm.val.map[a.public_space_id].locality_index}

\* C5 as claimed: for every input address whose public-space id resolved,
\* exactly one emitted range has its encoded postal code and contains its
\* house number.
C5_ExactlyOneRangeOfTheCode ==
    phase = "coalesced" =>
        /\ ranges.tag = "Ok"
        /\ \A k \in 1..Len(data.addresses) :
               Resolved(data.addresses[k]) =>
                   Cardinality(CoveringByCode(data.addresses[k])) = 1

\* C5 as amended: for every input address whose public-space id resolved,
\* exactly one emitted range has its encoded postal code and the public-space
\* and locality indices its public space resolves to, and contains its house
\* number (a number of two streets of one postal code is in two ranges).
C5_ExactlyOneRangeOfTheGroup ==
    phase = "coalesced" =>
        /\ ranges.tag = "Ok"
        /\ \A k \in 1..Len(data.addresses) :
               Resolved(data.addresses[k]) =>
                   Cardinality(CoveringByGroup(data.addresses[k])) = 1

\* C5 witness: a list with a duplicate, a run of two consecutive numbers and
\* an unresolved address has been coalesced.
C5_Witness ==
    /\ Coalesced
    /\ \E j, k \in 1..Len(data.addresses) :
           j # k /\ data.addresses[j] = data.addresses[k] /\ Resolved(data.addresses[j])
    /\ \E k \in 1..Len(data.addresses) : ~Resolved(data.addresses[k])
    /\ \E i \in 1..Len(ranges.val) : ranges.val[i].length = 0

\* C6: no two distinct emitted ranges with the same (postal_code,
\* public_space_index, locality_index) contain a common house number.
C6_RangesOfAGroupDisjoint ==
    phase = "coalesced" =>
        /\ ranges.tag = "Ok"
        /\ \A i, j \in 1..Len(ranges.val) :
               (i # j /\ same_group(ranges.val[i], new_range(
                    [postal_code |-> ranges.val[j].postal_code,
                     house_number |-> ranges.val[j].start,
                     public_space_index |-> ranges.val[j].public_space_index,
                     locality_index |-> ranges.val[j].locality_index])))
               => \/ LtW(RangeEnd(ranges.val[i]), ranges.val[j].start)
                  \/ LtW(RangeEnd(ranges.val[j]), ranges.val[i].start)

\* C6 witness: one group has two ranges, the first a run of two numbers
\* given in descending order.
C6_Witness ==
    /\ Coalesced
    /\ Len(data.addresses) = 3
    /\ data.addresses[1].house_number = Wide(2)
    /\ data.addresses[2].house_number = Wide(1)
    /\ \E i, j \in 1..Len(ranges.val) :
           /\ i # j
           /\ ranges.val[i].length = 1
           /\ ranges.val[i].postal_code = ranges.val[j].postal_code
           /\ ranges.val[i].public_space_index = ranges.val[j].public_space_index
           /\ ranges.val[i].locality_index = ranges.val[j].locality_index

SameGroupRanges(r, q) ==
    /\ r.postal_code = q.postal_code
    /\ r.public_space_index = q.public_space_index
    /\ r.locality_index = q.locality_index

\* The pairs (i, j) of distinct emitted ranges of one group, i starting first.
GroupPairs ==
    {p \in (1..Len(ranges.val)) \X (1..Len(ranges.val)) :
        /\ p[1] # p[2]
        /\ SameGroupRanges(ranges.val[p[1]], ranges.val[p[2]])
        /\ LeW(ranges.val[p[1]].start, ranges.val[p[2]].start)}

\* C18 as claimed: within one (postal_code, public_space_index,
\* locality_index) group of the output, a later range starts above
\* start + length + 1 of an earlier one: a house number lies between them.
C18_GapSeparated ==
    phase = "coalesced" =>
        /\ ranges.tag = "Ok"
        /\ \A p \in GroupPairs :
               LtW(AddW(RangeEnd(ranges.val[p[1]]), Wide(1)), ranges.val[p[2]].start)

\* C18 as amended: within one group a later range starts above start + length
\* of an earlier one, and above start + length + 1 unless the earlier range
\* has the length u16::MAX (a run longer than 65 536 numbers is cut into
\* adjacent ranges).
C18_GapSeparatedUnlessFull ==
    phase = "coalesced" =>
        /\ ranges.tag = "Ok"
        /\ \A p \in GroupPairs :
               /\ LtW(RangeEnd(ranges.val[p[1]]), ranges.val[p[2]].start)
               /\ ranges.val[p[1]].length < U16_MAX =>
                      LtW(AddW(RangeEnd(ranges.val[p[1]]), Wide(1)), ranges.val[p[2]].start)

\* C18 witness: a run of 65 537 consecutive numbers came out as a full range
\* and the range that starts right after it.
C18_Witness ==
    /\ Coalesced
    /\ \E p \in GroupPairs :
           /\ ranges.val[p[1]].length = U16_MAX
           /\ ranges.val[p[2]].start = AddW(RangeEnd(ranges.val[p[1]]), Wide(1))

\* C18 witness of the usual case: two ranges of one group with a gap.
C18_WitnessGap ==
    /\ Coalesced
    /\ \E p \in GroupPairs :
           /\ ranges.val[p[1]].length = 0
           /\ ranges.val[p[2]].start = AddW(ranges.val[p[1]].start, Wide(2))

\* C19 as claimed: every emitted range has length <= 65 534.
C19_LengthBelowU16Max ==
    phase = "coalesced" =>
        /\ ranges.tag = "Ok"
        /\ \A i \in 1..Len(ranges.val) : ranges.val[i].length <= U16_MAX - 1

\* C19 as amended: every emitted range has length <= 65 535 (u16::MAX), and
\* a run of consecutive numbers is cut only there: a range that is followed
\* in its group by the range starting at its start + length + 1 has the
\* length 65 535.
C19_LengthAtMostU16Max ==
    phase = "coalesced" =>
        /\ ranges.tag = "Ok"
        /\ \A i \in 1..Len(ranges.val) : ranges.val[i].length <= U16_MAX
        /\ \A p \in GroupPairs :
               ranges.val[p[2]].start = AddW(RangeEnd(ranges.val[p[1]]), Wide(1))
                   => ranges.val[p[1]].length = U16_MAX

\* C19 witness: a run of 65 536 consecutive numbers came out as one range of
\* length 65 535.
C19_Witness ==
    /\ Coalesced
    /\ Len(data.addresses) = U16_MAX + 1
    /\ Len(ranges.val) = 1
    /\ ranges.val[1].start = Wide(1)
    /\ ranges.val[1].length = U16_MAX

\* (postal_code, public_space_index, locality_index, start) of r below that of q.
RangeKeyLess(r, q) ==
    \/ LtW(r.postal_code, q.postal_code)
    \/ /\ r.postal_code = q.postal_code
       /\ \/ LtW(r.public_space_index, q.public_space_index)
          \/ /\ r.public_space_index = q.public_space_index
             /\ \/ r.locality_index < q.locality_index
                \/ /\ r.locality_index = q.locality_index
                   /\ LtW(r.start, q.start)

\* C20: the emitted ranges are in strictly ascending order of (postal_code,
\* public_space_index, locality_index, start), whatever the input order; the
\* ranges of one postal code are contiguous.
C20_RangesStrictlyAscending ==
    phase = "coalesced" =>
        /\ ranges.tag = "Ok"
        /\ \A i \in 1..(Len(ranges.val) - 1) :
               RangeKeyLess(ranges.val[i], ranges.val[i + 1])
        /\ \A i, k \in 1..Len(ranges.val) :
               (i < k /\ ranges.val[i].postal_code = ranges.val[k].postal_code)
                   => \A j \in i..k : ranges.val[j].postal_code = ranges.val[i].postal_code

\* C20 witness: three addresses given in descending key order came out as
\* three ranges.
C20_Witness ==
    /\ Coalesced
    /\ Len(data.addresses) = 3
    /\ \A k \in 1..3 : Resolved(data.addresses[k])
    /\ data.addresses[1].postal_code = PC_1234AC
    /\ data.addresses[2].postal_code = PC_1234AB
    /\ data.addresses[2].house_number = Wide(3)
    /\ data.addresses[3].postal_code = PC_1234AB
    /\ data.addresses[3].house_number = Wide(1)
    /\ Len(ranges.val) = 3

\* The group of an input address whose public space resolved.
GroupOf(a) ==
    [postal_code |-> KeyOf(a.postal_code),
     public_space_index |-> psm.val.map[a.public_space_id].public_space_index,
     locality_index |-> psm.val.map[a.public_space_id].locality_index]

GroupOfRange(r) ==
    [postal_code |-> r.postal_code,
     public_space_index |-> r.public_space_index,
     locality_index |-> r.locality_index]

ResolvedAddresses == {k \in 1..Len(data.addresses) : Resolved(data.addresses[k])}

InputGroups == {GroupOf(data.addresses[k]) : k \in ResolvedAddresses}

\* The house numbers of the input in group g, duplicates counted once.
NumbersOf(g) ==
    {data.addresses[k].house_number :
        k \in {j \in ResolvedAddresses : GroupOf(data.addresses[j]) = g}}

\* The emitted ranges of group g.
GroupRanges(g) == {i \in 1..Len(ranges.val) : GroupOfRange(ranges.val[i]) = g}

PredW(n) == IF n[2] > 0 THEN <<n[1], n[2] - 1>> ELSE <<n[1] - 1, Limb - 1>>

\* The first and the last numbers of the maximal runs of consecutive numbers
\* of a set G.
RunStarts(G) == {n \in G : n = Wide(0) \/ PredW(n) \notin G}
RunEnds(G) == {n \in G : AddW(n, Wide(1)) \notin G}

\* The number of numbers of the maximal run of G that starts at s.
RunLength(G, s) ==
    LET e == CHOOSE e \in RunEnds(G) :
                 /\ LeW(s, e)
                 /\ \A f \in RunEnds(G) : LeW(s, f) => LeW(e, f)
    IN (e[1] - s[1]) * Limb + (e[2] - s[2]) + 1

\* The least number of ranges of at most u16::MAX + 1 numbers that hold the
\* runs of G starting at the numbers of S.
RECURSIVE RangesNeeded(_, _)
RangesNeeded(G, S) ==
    IF S = {} THEN 0
    ELSE LET s == CHOOSE s \in S : TRUE
         IN (RunLength(G, s) + U16_MAX) \div (U16_MAX + 1) + RangesNeeded(G, S \ {s})

\* Range r holds input numbers of G only, as many as it spans.
OnlyInputNumbers(r, G) ==
    /\ r.start \in G
    /\ Cardinality({n \in G : Covers(r, n)}) = r.length + 1

\* C27 as claimed: in each group every maximal run of consecutive house
\* numbers is exactly one range (an isolated number a range of length 0): the
\* ranges of the group start at the first numbers of its maximal runs, end at
\* their last numbers, span input numbers only (no absent number lies inside
\* a range), and are as many as the runs.
C27_OneRangePerMaximalRun ==
    phase = "coalesced" =>
        /\ ranges.tag = "Ok"
        /\ \A i \in 1..Len(ranges.val) : GroupOfRange(ranges.val[i]) \in InputGroups
        /\ \A g \in InputGroups :
               LET G == NumbersOf(g)
               IN /\ Cardinality(GroupRanges(g)) = Cardinality(RunStarts(G))
                  /\ \A i \in GroupRanges(g) :
                         /\ ranges.val[i].start \in RunStarts(G)
                         /\ RangeEnd(ranges.val[i]) \in RunEnds(G)
                         /\ OnlyInputNumbers(ranges.val[i], G)

\* C27 as amended: in each group the ranges span input numbers only, every
\* input number is in a range, and the ranges are as few as a u16 length
\* allows: one for every maximal run of at most 65 536 numbers, and
\* ceil(n / 65 536) for a run of n numbers.
C27_FewestRangesOfU16Length ==
    phase = "coalesced" =>
        /\ ranges.tag = "Ok"
        /\ \A i \in 1..Len(ranges.val) : GroupOfRange(ranges.val[i]) \in InputGroups
        /\ \A g \in InputGroups :
               LET G == NumbersOf(g)
               IN /\ Cardinality(GroupRanges(g)) = RangesNeeded(G, RunStarts(G))
                  /\ \A i \in GroupRanges(g) : OnlyInputNumbers(ranges.val[i], G)
                  /\ \A n \in RunStarts(G) \cup RunEnds(G) :
                         \E i \in GroupRanges(g) : Covers(ranges.val[i], n)

\* C27 witness: a run of 65 537 consecutive numbers that ends at u32::MAX
\* came out as two ranges.
C27_Witness ==
    /\ Coalesced
    /\ Len(data.addresses) = U16_MAX + 2
    /\ Len(ranges.val) = 2
    /\ RangeEnd(ranges.val[2]) = U32_MAX

\* A group with a run of two numbers and an isolated number came out as a
\* range of length 1 and a range of length 0.
CoalescedRunAndIsolated ==
    /\ Coalesced
    /\ \E g \in InputGroups :
           /\ Cardinality(NumbersOf(g)) = 3
           /\ Cardinality(GroupRanges(g)) = 2
           /\ \E i, j \in GroupRanges(g) :
                  ranges.val[i].length = 1 /\ ranges.val[j].length = 0

\* C29: the additions of the fold never exceed their widths, whatever the
\* house numbers and the lengths of the runs: encode_addresses returns its
\* ranges (no panic) in a build with overflow checks, a build without them
\* returns the same ranges (nothing wrapped), and of every emitted range
\* start + length fits 32 bits and length fits 16 bits.
C29_FoldArithmeticInRange ==
    phase = "coalesced" =>
        /\ ranges.tag = "Ok"
        /\ ranges = encode_addresses(data.addresses, psm.val.map, TRUE)
        /\ \A i \in 1..Len(ranges.val) :
               /\ FitsU32(RangeEnd(ranges.val[i]))
               /\ ranges.val[i].length <= U16_MAX

\* C29 witness: a list that holds u32::MAX twice and the number before it has
\* been coalesced into a range that ends at u32::MAX, in a build without
\* overflow checks.
C29_Witness ==
    /\ Coalesced
    /\ ~build.overflow_checks
    /\ Len(data.addresses) = 3
    /\ Cardinality({k \in 1..3 : data.addresses[k].house_number = U32_MAX}) = 2
    /\ Len(ranges.val) = 1
    /\ ranges.val[1].length = 1
    /\ RangeEnd(ranges.val[1]) = U32_MAX

-----------------------------------------------------------------------------
(* The build followed by a lookup: Spec *)

\* Longest list of localities, of public spaces and of addresses of a build.
MaxParsed == 2

StreetS == <<83>>
StreetT == <<84>>
PC_1234ab == <<49, 50, 51, 52, 97, 98>>
PC_1235BB == <<49, 50, 51, 53, 66, 66>>

ParsedLocalities == [id : {10, 11}, name : {NameA, NameB}]
ParsedPublicSpaces == [id : {"ps-1", "ps-2"}, name : {StreetS, StreetT}, locality_id : {10, 11}]
ParsedAddresses ==
    [house_number : {Wide(1), Wide(2)},
     postal_code : {PC_1234AB, PC_1234ab},
     public_space_id : {"ps-1", "ps-2"}]

Queries ==
    [postalcode : {PC_1234AB, PC_1234ab, PC_1235BB},
     house_number : {Wide(1), Wide(2), Wide(3)}]

\* Builds over n localities with n distinct names, one street in the locality
\* of the last record and one address in that street: n at and above the
\* largest number of names index_localities accepts.
BulkParsed ==
    {[localities |-> BulkDistinct(n),
      public_spaces |-> <<[id |-> "ps-1", name |-> StreetS, locality_id |-> 10]>>,
      addresses |-> <<[house_number |-> Wide(1), postal_code |-> PC_1234AB,
                       public_space_id |-> "ps-1"]>>] :
        n \in {U16_MAX, U16_MAX + 1, U16_MAX + 2}}

Init ==
    /\ build = [overflow_checks |-> TRUE, usize_bits |-> 64]
    /\ phase = "parsed"
    /\ codec = NoCodec
    /\ data \in [localities : SeqsUpTo(ParsedLocalities, MaxParsed),
                 public_spaces : SeqsUpTo(ParsedPublicSpaces, MaxParsed),
                 addresses : SeqsUpTo(ParsedAddresses, MaxParsed)] \cup BulkParsed
    /\ loc = Nil
    /\ psm = Nil
    /\ ranges = Nil
    /\ db = Nil
    /\ file = <<>>
    /\ view = Nil
    /\ owned = Nil
    /\ query = NoQuery
    /\ result = NoResult
    /\ disk = Nil
    /\ run = Nil
    /\ readers = Nil
    /\ conn = Nil

\* Database::from_parsed_data(data)
FromParsedData ==
    /\ phase = "parsed"
    /\ loc' = index_localities(data.localities)
    /\ psm' = IF loc'.tag = "Ok"
              THEN index_public_spaces(data.public_spaces, loc'.val.locality_map)
              ELSE Nil
    /\ ranges' = IF psm'.tag = "Ok"
                 THEN encode_addresses(data.addresses, psm'.val.map, build.overflow_checks)
                 ELSE Nil
    /\ db' = from_parsed_data_result(loc', psm', ranges')
    /\ phase' = "built"
    /\ UNCHANGED <<build, codec, data, file, view, owned, query, result,
                   service>>

\* database.lookup(postalcode, house_number) on the database just built
Lookup ==
    /\ phase = "built"
    /\ db.tag = "Ok"
    /\ \E q \in Queries :
           /\ query' = q
           /\ result' = [result EXCEPT !.owned =
                  owned_lookup(db.val, q.postalcode, q.house_number, build.overflow_checks)]
    /\ phase' = "answered"
    /\ UNCHANGED <<build, codec, data, loc, psm, ranges, db, file, view, owned,
                   service>>

Next == FromParsedData \/ Lookup

Spec == Init /\ [][Next]_vars

IsDigit(c) == c >= 48 /\ c <= 57
IsUpper(c) == c >= 65 /\ c <= 90
IsLetter(c) == IsUpper(c) \/ (c >= 97 /\ c <= 122)

\* Four digits and two letters.
WellFormed(pc) ==
    /\ Len(pc) = 6
    /\ \A i \in 1..4 : IsDigit(pc[i])
    /\ \A i \in 5..6 : IsLetter(pc[i])

UpperCased(pc) == SeqOf([i \in 1..Len(pc) |-> to_ascii_uppercase(pc[i])], Len(pc))

UniqueIds(records) ==
    \A i, j \in 1..Len(records) : records[i].id = records[j].id => i = j

\* The premises of the end-to-end property on the parsed lists.
ConsistentData ==
    /\ UniqueIds(data.localities)
    /\ UniqueIds(data.public_spaces)
    /\ \A i \in 1..Len(data.public_spaces) :
           data.public_spaces[i].locality_id \in ids_of(data.localities)

\* The (street, locality) pairs of the input addresses with postal code pc
\* (letters compared without case) and house number n whose public space is
\* in the input.
Matching(pc, n) ==
    {<<data.public_spaces[p].name, data.localities[l].name>> :
        <<a, p, l>> \in
            {t \in (1..Len(data.addresses)) \X (1..Len(data.public_spaces))
                       \X (1..Len(data.localities)) :
                /\ UpperCased(data.addresses[t[1]].postal_code) = UpperCased(pc)
                /\ data.addresses[t[1]].house_number = n
                /\ data.public_spaces[t[2]].id = data.addresses[t[1]].public_space_id
                /\ data.localities[t[3]].id = data.public_spaces[t[2]].locality_id}}

Answered == phase = "answered" /\ ConsistentData /\ WellFormed(query.postalcode)

SoundAndComplete ==
    /\ result.owned.tag = "Ok"
    /\ result.owned.val.tag = "Some" <=> Matching(query.postalcode, query.house_number) # {}
    /\ result.owned.val.tag = "Some" =>
           result.owned.val.val \in Matching(query.postalcode, query.house_number)

\* C1: on a database built from lists with unique ids and existing locality
\* ids, lookup(pc, n) for a well-formed pc returns Some exactly when some
\* input address with a resolving public space has postal code pc and house
\* number n, and then the street and locality of such an address.
C1_LookupSoundAndComplete == Answered => SoundAndComplete

\* The same when every address carries its postal code in upper case.
LookupSoundAndCompleteOnUpperCase ==
    (Answered /\ \A i \in 1..Len(data.addresses) :
                     data.addresses[i].postal_code = UpperCased(data.addresses[i].postal_code))
        => SoundAndComplete

\* An address with the lower-case code 1234ab has been stored under the key
\* of 1235BB, and a lookup of 1235BB has found it.
C1_Witness ==
    /\ Answered
    /\ \E i \in 1..Len(data.addresses) : data.addresses[i].postal_code = PC_1234ab
    /\ query.postalcode = PC_1235BB
    /\ result.owned.tag = "Ok"
    /\ result.owned.val.tag = "Some"

Built == phase # "parsed" /\ db.tag = "Ok"

\* The entry of the public-space map for a public-space id names the street
\* and the locality of the last record with that id.
IndexNamesIts(id) ==
    LET record == last_with_id(data.public_spaces, id)
        entry == psm.val.map[id]
    IN /\ LtW(entry.public_space_index, Wide(Len(db.val.public_spaces)))
       /\ db.val.public_spaces[Nat32(entry.public_space_index) + 1] = record.name
       /\ entry.locality_index < Len(db.val.localities)
       /\ db.val.localities[entry.locality_index + 1] =
              last_with_id(data.localities, record.locality_id).name

KnownLocality(record) == record.locality_id \in ids_of(data.localities)

SomeUnknownLocality ==
    \E k \in 1..Len(data.public_spaces) : ~KnownLocality(data.public_spaces[k])

\* C25: a build whose localities are indexed completes without error or
\* panic also when a public space names a locality id that no locality has;
\* that public space gets no entry in the public-space map, every other one
\* gets its entry, and the ranges hold only addresses of public spaces with
\* an entry.
C25_UnknownLocalitySkipped ==
    (phase # "parsed" /\ loc.tag = "Ok") =>
        /\ psm.tag = "Ok"
        /\ db.tag = "Ok"
        /\ \A id \in ids_of(data.public_spaces) :
               id \in DOMAIN psm.val.map <=>
                   \E k \in 1..Len(data.public_spaces) :
                       /\ data.public_spaces[k].id = id
                       /\ KnownLocality(data.public_spaces[k])

\* C25 witness: from_parsed_data has run on lists in which one public space
\* names a locality id without a locality and another names one with.
C25_Witness ==
    /\ phase # "parsed"
    /\ loc.tag = "Ok"
    /\ SomeUnknownLocality
    /\ \E k \in 1..Len(data.public_spaces) : KnownLocality(data.public_spaces[k])
    /\ Len(data.addresses) > 0

\* Every such build panics, and no other does.
PanicsExactlyOnUnknownLocality ==
    (phase # "parsed" /\ loc.tag = "Ok") => (psm.tag = "Panic" <=> SomeUnknownLocality)

\* The orders a list is given in: every permutation of a short list, the
\* list and the list with its first record moved to the end for a long one.
Orders(s) ==
    IF Len(s) <= MaxParsed + 1
    THEN {[i \in 1..Len(s) |-> s[p[i]]] :
             p \in {f \in [1..Len(s) -> 1..Len(s)] :
                       \A i, j \in 1..Len(s) : f[i] = f[j] => i = j}}
    ELSE {s, Tail(s) \o <<Head(s)>>}

\* Two results of from_parsed_data are the same outcome and the same database.
SameBuilt(a, b) == a.tag = b.tag /\ (a.tag \in {"Ok", "Err"} => a.val = b.val)

\* The build of the parsed lists given in every other order is the one made.
SameInEveryOrder ==
    \A ls \in Orders(data.localities) :
    \A ps \in Orders(data.public_spaces) :
    \A as \in Orders(data.addresses) :
        SameBuilt(from_parsed_data([localities |-> ls, public_spaces |-> ps,
                                    addresses |-> as], build.overflow_checks),
                  db)

\* Records with one id agree in the fields the indexers read.
IdsAgree ==
    /\ \A i, j \in 1..Len(data.localities) :
           data.localities[i].id = data.localities[j].id
               => data.localities[i].name = data.localities[j].name
    /\ \A i, j \in 1..Len(data.public_spaces) :
           data.public_spaces[i].id = data.public_spaces[j].id
               => data.public_spaces[i] = data.public_spaces[j]

BuiltFromUnsortedLists ==
    /\ phase = "built"
    /\ db.tag = "Ok"
    /\ IdsAgree
    /\ Len(data.localities) = 2
    /\ data.localities[1].id = data.localities[2].id
    /\ Len(data.public_spaces) = 2
    /\ data.public_spaces[1].name = StreetT
    /\ data.public_spaces[2].name = StreetS
    /\ Len(db.val.ranges) = 2
    /\ data.addresses[1].house_number = Wide(2)
    /\ data.addresses[2].house_number = Wide(1)

-----------------------------------------------------------------------------
(* Writing a database and loading a file with both readers: SpecFile *)

\* Longest list of names and longest list of ranges of a database written.
MaxNames == 2
MaxRanges == 2

Strictly(names) == \A i \in 1..(Len(names) - 1) : LexLess(names[i], names[i + 1])

\* Lists of names as the indexer leaves them: sorted and distinct; a name
\* may be empty.
NameLists(S) == {l \in SeqsUpTo(S, MaxNames) : Strictly(l)}

\* start and length of the ranges written; the last one ends beyond u32::MAX.
RangeShapes == {<<Wide(1), 0>>, <<Wide(1), 1>>, <<Wide(5), 0>>, <<U32_MAX, U16_MAX>>}

RangesOf(L, P) ==
    {[postal_code |-> KeyValue(PC_1234AB),
      start |-> sh[1],
      length |-> sh[2],
      public_space_index |-> Wide(p),
      locality_index |-> l] :
        sh \in RangeShapes, p \in 0..(P - 1), l \in 0..(L - 1)}

\* The databases written: every range index is in bounds.
FileDatabases ==
    UNION {UNION {{[localities |-> ls, public_spaces |-> ps, ranges |-> rs] :
                      rs \in SeqsUpTo(RangesOf(Len(ls), Len(ps)), MaxRanges)} :
                  ps \in NameLists({<<>>, StreetS})} :
           ls \in NameLists({<<>>, NameA})}

\* Databases of three ranges of one postal code on two streets: a range
\* that ends beyond u32::MAX, ranges that hold 1 and 5.
ThreeRangeDatabases ==
    {[localities |-> <<NameA>>, public_spaces |-> <<StreetS, StreetT>>, ranges |-> rs] :
        rs \in [1..3 -> {[postal_code |-> KeyValue(PC_1234AB), start |-> sh[1],
                          length |-> sh[2], public_space_index |-> Wide(sh[3]),
                          locality_index |-> 0] :
                            sh \in {<<U32_MAX, 1, 0>>, <<Wide(5), 0, 0>>,
                                    <<Wide(5), 0, 1>>, <<Wide(1), 1, 0>>}}]}

\* A database whose file is the base of the files of other origin.
BaseDatabase ==
    [localities |-> <<NameA, NameB>>,
     public_spaces |-> <<StreetS>>,
     ranges |-> <<[postal_code |-> KeyValue(PC_1234AB), start |-> Wide(1), length |-> 1,
                   public_space_index |-> Wide(0), locality_index |-> 1],
                  [postal_code |-> KeyValue(PC_1234AB), start |-> Wide(5), length |-> 0,
                   public_space_index |-> Wide(0), locality_index |-> 0]>>]

SetWord(bytes, pos, w) ==
    SubSeq(bytes, 1, pos) \o to_le_bytes_u32(w) \o SubSeq(bytes, pos + 5, Len(bytes))

SetByte(bytes, pos, c) ==
    SubSeq(bytes, 1, pos) \o <<c>> \o SubSeq(bytes, pos + 2, Len(bytes))

\* Words written over a file: 0, 1, 36, 2^30 - 1, 2^30, u32::MAX.
TamperWords == {Wide(0), Wide(1), Wide(DATABASE_HEADER_SIZE),
                <<Limb \div 4 - 1, Limb - 1>>, <<Limb \div 4, 0>>, U32_MAX}

\* Byte slices of any origin: every prefix of a written file, the file with
\* a byte appended, with one word replaced, with one byte replaced.
ForeignFiles ==
    LET F == write_database(BaseDatabase)
    IN {SubSeq(F, 1, k) : k \in 0..Len(F)}
       \cup {F \o <<0>>}
       \cup {SetWord(F, pos, w) : pos \in 0..(Len(F) - 4), w \in TamperWords}
       \cup {SetByte(F, pos, Byte - 1) : pos \in 0..(Len(F) - 1)}

PC_122gtAB == <<49, 50, 50, 62, 65, 66>>
PC_12345 == <<49, 50, 51, 52, 53>>
PC_1234Abang == <<49, 50, 51, 52, 65, 33>>
PC_1234ABspace == <<49, 50, 51, 52, 65, 66, 32>>

FileQueries ==
    [postalcode : {PC_1234AB, PC_1234ab, PC_122gtAB, PC_1234Abang, PC_12345, PC_1234ABspace},
     house_number : {Wide(1), Wide(2), Wide(5), U32_MAX}]

InitFile ==
    /\ build \in Builds
    /\ codec = NoCodec
    /\ data = NoData
    /\ loc = Nil
    /\ psm = Nil
    /\ ranges = Nil
    /\ \/ /\ phase = "db"
          /\ db \in {Ok(d) : d \in FileDatabases \cup ThreeRangeDatabases}
          /\ file = <<>>
       \/ /\ phase = "encoded"
          /\ db = Nil
          /\ file \in ForeignFiles
    /\ view = Nil
    /\ owned = Nil
    /\ query = NoQuery
    /\ result = NoResult
    /\ disk = Nil
    /\ run = Nil
    /\ readers = Nil
    /\ conn = Nil

\* database.encode(path)
Encode ==
    /\ phase = "db"
    /\ file' = write_database(db.val)
    /\ phase' = "encoded"
    /\ UNCHANGED <<build, codec, data, loc, psm, ranges, db, view, owned, query, result,
                   service>>

\* DatabaseView::from_bytes(bytes)
LoadView ==
    /\ phase = "encoded"
    /\ view' = from_bytes(file, build)
    /\ phase' = "viewed"
    /\ UNCHANGED <<build, codec, data, loc, psm, ranges, db, file, owned, query, result,
                   service>>

\* Database::from_reader(reader)
LoadOwned ==
    /\ phase = "viewed"
    /\ owned' = from_reader(file, build)
    /\ phase' = "loaded"
    /\ UNCHANGED <<build, codec, data, loc, psm, ranges, db, file, view, query, result,
                   service>>

\* lookup(postalcode, house_number) on each reader that loaded the file
LookupBoth ==
    /\ phase = "loaded"
    /\ "Ok" \in {view.tag, owned.tag}
    /\ \E q \in FileQueries :
           /\ query' = q
           /\ result' =
                  [view |-> IF view.tag = "Ok"
                            THEN view_lookup(view.val, file, q.postalcode,
                                             q.house_number, build)
                            ELSE Nil,
                   owned |-> IF owned.tag = "Ok"
                             THEN owned_lookup(owned.val, q.postalcode, q.house_number,
                                               build.overflow_checks)
                             ELSE Nil]
    /\ phase' = "answered"
    /\ UNCHANGED <<build, codec, data, loc, psm, ranges, db, file, view, owned,
                   service>>

NextFile == Encode \/ LoadView \/ LoadOwned \/ LookupBoth

SpecFile == InitFile /\ [][NextFile]_vars

DatabaseErrors ==
    {"NotFound", "TooShort", "InvalidMagic", "InvalidLayout", "DecompressionFailed"}

\* The file was written by the encoder from the database db, and both
\* readers have been applied to it.
WrittenAndLoaded == phase \in {"loaded", "answered"} /\ db.tag = "Ok"

\* What the view yields, name by name and range by range, is database d.
ViewYields(d) ==
    /\ view.val.locality_count = Wide(Len(d.localities))
    /\ view.val.public_space_count = Wide(Len(d.public_spaces))
    /\ view.val.range_count = Wide(Len(d.ranges))
    /\ \A i \in 1..Len(d.localities) :
           IsSome(view_locality_name(view.val, file, i - 1, build), d.localities[i])
    /\ \A i \in 1..Len(d.public_spaces) :
           IsSome(view_public_space_name(view.val, file, Wide(i - 1), build),
                  d.public_spaces[i])
    /\ \A i \in 1..Len(d.ranges) :
           /\ IsSome(range_postal_code(view.val, file, i - 1, build), d.ranges[i].postal_code)
           /\ IsSome(range_at(view.val, file, i - 1, build),
                     [start |-> d.ranges[i].start,
                      length |-> d.ranges[i].length,
                      public_space_index |-> d.ranges[i].public_space_index,
                      locality_index |-> d.ranges[i].locality_index])

\* C3: a valid database, also one without localities, public spaces or
\* ranges, written by the encoder is loaded by both readers, and each yields
\* the same names and the same ranges in the same order.
C3_RoundTrip ==
    WrittenAndLoaded =>
        /\ IsOk(owned, db.val)
        /\ view.tag = "Ok"
        /\ ViewYields(db.val)

\* The round trip of a database with two localities, a public space and two
\* ranges has been made.
C3_Witness ==
    /\ WrittenAndLoaded
    /\ db.val.localities = <<<<>>, NameA>>
    /\ db.val.public_spaces = <<StreetS>>
    /\ Len(db.val.ranges) = 2
    /\ db.val.ranges[1].start = U32_MAX
    /\ db.val.ranges[1].locality_index = 1
    /\ IsOk(owned, db.val)
    /\ view.tag = "Ok"
    /\ ViewYields(db.val)

\* The round trip holds for the databases in which no list of names is empty
\* and the names of a list are not all empty.
RoundTripOfNamedDatabases ==
    (/\ WrittenAndLoaded
     /\ \E i \in 1..Len(db.val.localities) : db.val.localities[i] # <<>>
     /\ \E i \in 1..Len(db.val.public_spaces) : db.val.public_spaces[i] # <<>>)
        => /\ IsOk(owned, db.val)
           /\ view.tag = "Ok"
           /\ ViewYields(db.val)

BothLoaded == view.tag = "Ok" /\ owned.tag = "Ok"

\* C4: on a file that both readers load, the lookup of the owned decoder and
\* the lookup of the view return the same result for every postal-code
\* string and house number.
C4_LookupAgreement ==
    (phase = "answered" /\ BothLoaded) => SameReturned(result.view, result.owned)

\* Both readers have answered a lookup of the number after a range whose end
\* start + length exceeds u32::MAX.
C4_Witness ==
    /\ phase = "answered"
    /\ BothLoaded
    /\ Len(owned.val.ranges) = 2
    /\ owned.val.ranges[1].start = U32_MAX
    /\ owned.val.ranges[1].length > 0
    /\ owned.val.ranges[2].start = Wide(5)
    /\ query = [postalcode |-> PC_1234AB, house_number |-> Wide(5)]
    /\ ReturnedNone(result.view)
    /\ result.owned.tag = "Ok"
    /\ result.owned.val.tag = "Some"

\* C2: a lookup with a postal-code string that is not six bytes, or not four
\* digits and two letters, returns None from each reader, whatever the
\* house number and the file, and does not panic.
C2_MalformedReturnsNone ==
    (phase = "answered" /\ ~WellFormed(query.postalcode)) =>
        /\ view.tag = "Ok" => ReturnedNone(result.view)
        /\ owned.tag = "Ok" => ReturnedNone(result.owned)

\* Both readers have answered the lookup of 122>AB, house number 1, on a
\* file that holds house number 1 of 1234AB, with the names of 1234AB.
C2_Witness ==
    /\ phase = "answered"
    /\ BothLoaded
    /\ query = [postalcode |-> PC_122gtAB, house_number |-> Wide(1)]
    /\ result.view.tag = "Ok"
    /\ result.view.val.tag = "Some"
    /\ SameReturned(result.owned, result.view)

\* A string whose length is not six returns None from each reader.
WrongLengthReturnsNone ==
    (phase = "answered" /\ Len(query.postalcode) # 6) =>
        /\ view.tag = "Ok" => ReturnedNone(result.view)
        /\ owned.tag = "Ok" => ReturnedNone(result.owned)

\* C8: from_bytes on any byte slice returns Ok or a DatabaseError; it does
\* not panic.
C8_FromBytesNeverPanics ==
    phase \in {"viewed", "loaded", "answered"} =>
        \/ view.tag = "Ok"
        \/ view.tag = "Err" /\ view.val \in DatabaseErrors

\* from_bytes has panicked on a slice whose header gives u32::MAX localities,
\* on a target with a 32-bit usize and overflow checks.
C8_Witness ==
    /\ phase = "viewed"
    /\ Len(file) >= DATABASE_HEADER_SIZE
    /\ from_le_bytes_u32(file, 5) = U32_MAX
    /\ build = [overflow_checks |-> TRUE, usize_bits |-> 32]
    /\ view.tag = "Panic"

\* On a target with a 64-bit usize from_bytes returns Ok or a DatabaseError.
FromBytesNeverPanicsOn64Bit ==
    (phase \in {"viewed", "loaded", "answered"} /\ build.usize_bits = 64) =>
        \/ view.tag = "Ok"
        \/ view.tag = "Err" /\ view.val \in DatabaseErrors

\* The file is a proper prefix of a written file.
Truncated ==
    /\ Len(file) < Len(write_database(BaseDatabase))
    /\ file = SubSeq(write_database(BaseDatabase), 1, Len(file))

ViewLoaded == phase \in {"viewed", "loaded", "answered"}

\* C12: from_bytes returns TooShort on a truncated file: on a slice of fewer
\* than 36 bytes, and on a slice that holds the header and ends before the
\* end of an offsets table, a name block or the range block.
C12_TruncationIsTooShort ==
    (ViewLoaded /\ Truncated) => (view.tag = "Err" /\ view.val = "TooShort")

\* C12 witness: a file cut inside its range block, behind an intact header,
\* has been rejected with InvalidLayout.
C12_Witness ==
    /\ ViewLoaded
    /\ Truncated
    /\ Len(file) = Len(write_database(BaseDatabase)) - 1
    /\ view.tag = "Err"
    /\ view.val = "InvalidLayout"

\* A slice of fewer than 36 bytes is rejected with TooShort.
ShortSliceIsTooShort ==
    (ViewLoaded /\ Len(file) < DATABASE_HEADER_SIZE)
        => (view.tag = "Err" /\ view.val = "TooShort")

\* A truncated file with an intact header is rejected with InvalidLayout.
TruncatedBehindHeaderIsInvalidLayout ==
    (ViewLoaded /\ Truncated /\ Len(file) >= DATABASE_HEADER_SIZE)
        => (view.tag = "Err" /\ view.val = "InvalidLayout")

\* The data-model invariants on a decoded database: range indices in bounds,
\* ranges in ascending postal-code order.
OwnedRangesValid(d) ==
    /\ \A i \in 1..Len(d.ranges) :
           /\ LtW(d.ranges[i].public_space_index, Wide(Len(d.public_spaces)))
           /\ d.ranges[i].locality_index < Len(d.localities)
    /\ \A i \in 1..(Len(d.ranges) - 1) :
           LeW(d.ranges[i].postal_code, d.ranges[i + 1].postal_code)

\* The same on the records a view reads from its bytes.
ViewRangesValid(v) ==
    /\ \A i \in 1..Nat32(v.range_count) :
           LET range == range_at(v, file, i - 1, build)
           IN /\ range.tag = "Some"
              /\ LtW(range.val.public_space_index, v.public_space_count)
              /\ LtW(Wide(range.val.locality_index), v.locality_count)
    /\ \A i \in 1..(Nat32(v.range_count) - 1) :
           LET code == range_postal_code(v, file, i - 1, build)
               next == range_postal_code(v, file, i, build)
           IN code.tag = "Some" /\ next.tag = "Some" /\ LeW(code.val, next.val)

\* C13: whenever from_bytes or from_reader returns Ok, every range of the
\* loaded database has public_space_index < P and locality_index < L and the
\* ranges are in ascending postal-code order.
C13_LoadedRangesValid ==
    /\ (ViewLoaded /\ view.tag = "Ok") => ViewRangesValid(view.val)
    /\ (phase \in {"loaded", "answered"} /\ owned.tag = "Ok") => OwnedRangesValid(owned.val)

\* C13 witness: both readers have loaded a file whose first range holds the
\* public-space index u32::MAX.
C13_Witness ==
    /\ phase = "loaded"
    /\ view.tag = "Ok"
    /\ owned.tag = "Ok"
    /\ Len(owned.val.ranges) = 2
    /\ Len(owned.val.public_spaces) = 1
    /\ owned.val.ranges[1].public_space_index = U32_MAX

\* Both readers have loaded a file whose ranges are in descending
\* postal-code order.
LoadedDescending ==
    /\ phase = "loaded"
    /\ view.tag = "Ok"
    /\ owned.tag = "Ok"
    /\ Len(owned.val.ranges) = 2
    /\ LtW(owned.val.ranges[2].postal_code, owned.val.ranges[1].postal_code)

\* C16: a lookup with a six-byte postal code returns what the lookup with the
\* ASCII-uppercased code returns, on either reader; a lookup with a string
\* of another length, one with a trailing space included, returns None.
C16_LookupIgnoresCase ==
    phase = "answered" =>
        /\ owned.tag = "Ok" =>
               IF Len(query.postalcode) = 6
               THEN SameReturned(result.owned,
                                 owned_lookup(owned.val, UpperCased(query.postalcode),
                                              query.house_number, build.overflow_checks))
               ELSE ReturnedNone(result.owned)
        /\ view.tag = "Ok" =>
               IF Len(query.postalcode) = 6
               THEN SameReturned(result.view,
                                 view_lookup(view.val, file, UpperCased(query.postalcode),
                                             query.house_number, build))
               ELSE ReturnedNone(result.view)

\* C16 witness: the lookup of "1234ab" has returned a street on both readers.
C16_Witness ==
    /\ phase = "answered"
    /\ BothLoaded
    /\ query.postalcode = PC_1234ab
    /\ result.owned.tag = "Ok"
    /\ result.owned.val.tag = "Some"
    /\ result.view.tag = "Ok"
    /\ result.view.val.tag = "Some"

\* The lookup of "1234AB " with a trailing space has returned None on a
\* database that holds 1234AB with that house number.
TrailingSpaceNotTrimmed ==
    /\ phase = "answered"
    /\ owned.tag = "Ok"
    /\ query.postalcode = PC_1234ABspace
    /\ ReturnedNone(result.owned)
    /\ \E i \in 1..Len(owned.val.ranges) :
           /\ owned.val.ranges[i].postal_code = KeyValue(PC_1234AB)
           /\ owned.val.ranges[i].start = query.house_number

\* The end of a range when start + length saturates at u32::MAX.
SaturatedEnd(r) == IF FitsU32(RangeEnd(r)) THEN RangeEnd(r) ELSE U32_MAX

\* The ranges of database d with key pc_encoded that hold n up to that end.
SaturatedMatches(d, pc_encoded, n) ==
    {i \in 1..Len(d.ranges) :
        /\ d.ranges[i].postal_code = pc_encoded
        /\ LeW(d.ranges[i].start, n)
        /\ LeW(n, SaturatedEnd(d.ranges[i]))}

FirstIndex(S) == CHOOSE i \in S : \A j \in S : i <= j

NamesOfRange(d, i) ==
    <<d.public_spaces[Nat32(d.ranges[i].public_space_index) + 1],
      d.localities[d.ranges[i].locality_index + 1]>>

\* returned is the answer for the first range that holds n up to its
\* saturated end, None when there is none.
ReturnedSaturated(returned, d, pc_encoded, n) ==
    /\ returned.tag = "Ok"
    /\ IF SaturatedMatches(d, pc_encoded, n) = {}
       THEN returned.val.tag = "None"
       ELSE /\ returned.val.tag = "Some"
            /\ returned.val.val = NamesOfRange(d, FirstIndex(SaturatedMatches(d, pc_encoded, n)))

WrittenAndAnswered ==
    /\ phase = "answered"
    /\ db.tag = "Ok"
    /\ WellFormed(query.postalcode)

\* C21: on the file of a written database, the lookup of a well-formed
\* postal code returns the names of the first range of that code with
\* start <= n <= min(start + length, u32::MAX), on either reader: a range
\* whose end exceeds u32::MAX matches up to u32::MAX and hides no later range.
C21_UpperBoundSaturates ==
    WrittenAndAnswered =>
        /\ owned.tag = "Ok" =>
               ReturnedSaturated(result.owned, db.val,
                                 KeyValue(UpperCased(query.postalcode)), query.house_number)
        /\ view.tag = "Ok" =>
               ReturnedSaturated(result.view, db.val,
                                 KeyValue(UpperCased(query.postalcode)), query.house_number)

\* C21 witness: both readers have answered the lookup of house number
\* u32::MAX on a file whose first range starts at u32::MAX with a length
\* above 0.
C21_Witness ==
    /\ WrittenAndAnswered
    /\ BothLoaded
    /\ Len(db.val.ranges) >= 1
    /\ db.val.ranges[1].start = U32_MAX
    /\ db.val.ranges[1].length > 0
    /\ query.house_number = U32_MAX

\* On that file neither reader returns the names of the range.
OverflowingRangeNeverMatches ==
    (/\ WrittenAndAnswered
     /\ BothLoaded
     /\ \A i \in 1..Len(db.val.ranges) : ~FitsU32(RangeEnd(db.val.ranges[i]))) =>
        /\ ReturnedNone(result.view)
        /\ ReturnedNone(result.owned)

\* When no range of the file ends beyond u32::MAX, both readers return the
\* names of the first range that holds the number.
LookupOfFirstMatchWithoutOverflow ==
    (/\ WrittenAndAnswered
     /\ \A i \in 1..Len(db.val.ranges) : FitsU32(RangeEnd(db.val.ranges[i]))) =>
        /\ owned.tag = "Ok" =>
               ReturnedSaturated(result.owned, db.val,
                                 KeyValue(UpperCased(query.postalcode)), query.house_number)
        /\ view.tag = "Ok" =>
               ReturnedSaturated(result.view, db.val,
                                 KeyValue(UpperCased(query.postalcode)), query.house_number)

\* The file as the format lays it out, read for a file that a reader has
\* loaded: a header word, the names of a table, a range record.
FileWord(p) == Nat32(from_le_bytes_u32(file, p))

FileNames(count_at, offsets_at, data_at) ==
    {SubSeq(file,
            FileWord(data_at) + Nat32(from_le_bytes_u32(file, FileWord(offsets_at) + 4 * i + 1)) + 1,
            FileWord(data_at) + Nat32(from_le_bytes_u32(file, FileWord(offsets_at) + 4 * i + 5))) :
        i \in 0..(FileWord(count_at) - 1)}

FileLocalities == FileNames(5, 17, 21)

FilePublicSpaces == FileNames(9, 25, 29)

FileRanges ==
    [i \in 1..FileWord(13) |->
        [postal_code |-> from_le_bytes_u32(file, FileWord(33) + RANGE_RECORD_SIZE * (i - 1) + 1),
         start |-> from_le_bytes_u32(file, FileWord(33) + RANGE_RECORD_SIZE * (i - 1) + 5),
         length |-> from_le_bytes_u16(file, FileWord(33) + RANGE_RECORD_SIZE * (i - 1) + 9),
         public_space_index |->
             from_le_bytes_u32(file, FileWord(33) + RANGE_RECORD_SIZE * (i - 1) + 11),
         locality_index |->
             from_le_bytes_u16(file, FileWord(33) + RANGE_RECORD_SIZE * (i - 1) + 15)]]

SortedByPostalCode(rs) ==
    \A i \in 1..(Len(rs) - 1) : LeW(rs[i].postal_code, rs[i + 1].postal_code)

\* The ranges of rs with the key that hold n below an end within 32 bits.
Holding(rs, pc_encoded, n) ==
    {i \in 1..Len(rs) :
        /\ rs[i].postal_code = pc_encoded
        /\ FitsU32(RangeEnd(rs[i]))
        /\ Covers(rs[i], n)}

\* The first range of a sorted block that holds n names an entry beyond one
\* of the tables, of P public spaces and L localities.
FirstHoldingOutOfBounds(rs, pc_encoded, n, P, L) ==
    /\ SortedByPostalCode(rs)
    /\ Holding(rs, pc_encoded, n) # {}
    /\ \/ ~LtW(rs[FirstIndex(Holding(rs, pc_encoded, n))].public_space_index, Wide(P))
       \/ rs[FirstIndex(Holding(rs, pc_encoded, n))].locality_index >= L

\* returned is no panic, names only entries of the tables, and None when
\* the first holding range points beyond a table.
SafelyReturned(returned, rs, public_spaces, localities, P, L) ==
    /\ returned.tag = "Ok"
    /\ returned.val.tag = "Some" =>
           /\ returned.val.val[1] \in public_spaces
           /\ returned.val.val[2] \in localities
    /\ FirstHoldingOutOfBounds(rs, KeyValue(UpperCased(query.postalcode)),
                               query.house_number, P, L) => returned.val.tag = "None"

ZeroDataTable(names) == Len(names) > 0 /\ \A i \in 1..Len(names) : Len(names[i]) = 0

IsInvalidLayout(r) == r.tag = "Err" /\ r.val = "InvalidLayout"

WrittenWithZeroDataTable ==
    /\ phase \in {"loaded", "answered"}
    /\ db.tag = "Ok"
    /\ ZeroDataTable(db.val.localities) \/ ZeroDataTable(db.val.public_spaces)

\* C23: a file with a non-zero count L (or P) and a locality (public-space)
\* data length of zero is rejected with InvalidLayout by from_bytes and by
\* from_reader, and the two readers accept the same files.
C23_ReadersValidateAlike ==
    /\ WrittenWithZeroDataTable => (IsInvalidLayout(view) /\ IsInvalidLayout(owned))
    /\ phase \in {"loaded", "answered"} => (view.tag = "Ok" <=> owned.tag = "Ok")

\* C23 witness: the file of a database whose one locality has the empty
\* name is rejected by from_bytes and loaded by from_reader.
C23_Witness ==
    /\ WrittenWithZeroDataTable
    /\ ZeroDataTable(db.val.localities)
    /\ IsInvalidLayout(view)
    /\ owned.tag = "Ok"

\* from_bytes does reject every such file with InvalidLayout.
ViewRejectsZeroDataTable == WrittenWithZeroDataTable => IsInvalidLayout(view)

\* from_reader loads every such file whose other table has a name.
OwnedLoadsZeroDataTable ==
    (/\ WrittenWithZeroDataTable
     /\ Len(db.val.localities) > 0
     /\ Len(db.val.public_spaces) > 0) => owned.tag = "Ok"

\* returned is the names of the first range of the written database that
\* holds the queried number.
ReturnedFirstHolding(returned) ==
    /\ returned.tag = "Ok"
    /\ returned.val.tag = "Some"
    /\ returned.val.val =
           NamesOfRange(db.val, FirstIndex(Holding(db.val.ranges,
                                                   KeyValue(UpperCased(query.postalcode)),
                                                   query.house_number)))

\* Two or more ranges of the queried code hold the queried number.
SeveralHolding ==
    /\ WrittenAndAnswered
    /\ BothLoaded
    /\ Cardinality(Holding(db.val.ranges, KeyValue(UpperCased(query.postalcode)),
                           query.house_number)) >= 2

\* C28: when several ranges of the queried postal code hold the house
\* number, the view and the owned decoder both return the names of the first
\* of them in file order.
C28_FirstHoldingRangeWins ==
    SeveralHolding =>
        /\ ReturnedFirstHolding(result.view)
        /\ ReturnedFirstHolding(result.owned)
        /\ SameReturned(result.view, result.owned)

\* C28 witness: house number 5 is on two streets of the postal code, the
\* file's first range of that code ends beyond u32::MAX, and the two readers
\* have answered differently.
C28_Witness ==
    /\ SeveralHolding
    /\ ~FitsU32(RangeEnd(db.val.ranges[1]))
    /\ query.house_number = Wide(5)
    /\ db.val.ranges[2].public_space_index # db.val.ranges[3].public_space_index
    /\ ReturnedNone(result.view)
    /\ ReturnedFirstHolding(result.owned)

\* The owned decoder does return the first holding range on every file.
OwnedReturnsFirstHolding == SeveralHolding => ReturnedFirstHolding(result.owned)

\* So does the view when no range of the file ends beyond u32::MAX, also
\* when the first holding range has the larger public_space_index.
ViewReturnsFirstHoldingWithoutOverflow ==
    (/\ SeveralHolding
     /\ \A i \in 1..Len(db.val.ranges) : FitsU32(RangeEnd(db.val.ranges[i]))) =>
        ReturnedFirstHolding(result.view)

SeveralHoldingLargerIndexFirst ==
    /\ SeveralHolding
    /\ \A i \in 1..Len(db.val.ranges) : FitsU32(RangeEnd(db.val.ranges[i]))
    /\ db.val.ranges[1].public_space_index = Wide(1)
    /\ db.val.ranges[2].public_space_index = Wide(0)
    /\ ReturnedFirstHolding(result.view)

-----------------------------------------------------------------------------
(* Runs of the builder on one file system: SpecCreate *)

\* Number of create_database calls in a behaviour.
MaxRuns == 3

ZipSmall ==
    [localities |-> <<[id |-> 10, name |-> NameA]>>,
     public_spaces |-> <<[id |-> "ps-1", name |-> StreetS, locality_id |-> 10]>>,
     addresses |-> <<[house_number |-> Wide(1), postal_code |-> PC_1234AB,
                      public_space_id |-> "ps-1"]>>]

\* A public space of a locality that is not in the dump.
ZipDangling == [ZipSmall EXCEPT !.public_spaces[1].locality_id = 11]

\* What ParsedData::from_bag_zip returns for the zip at ZIP_PATH.
FromBagZip ==
    [z \in {"small", "empty", "dangling", "corrupt"} |->
        CASE z = "small" -> Ok(ZipSmall)
          [] z = "empty" -> Ok(NoData)
          [] z = "dangling" -> Ok(ZipDangling)
          [] z = "corrupt" -> Err("zip")]

\* What a download can end in: success with a zip, failure with or without
\* a file left behind.
Downloads ==
    {[ok |-> TRUE, zip |-> z] : z \in DOMAIN FromBagZip}
        \cup {[ok |-> FALSE, zip |-> "absent"], [ok |-> FALSE, zip |-> "corrupt"]}

\* Number of bytes of the longest file written.
LongestFile == Len(write_database(from_parsed_data(ZipSmall, TRUE).val))

Surroundings ==
    [download : Downloads, create_ok : BOOLEAN, written : 0..LongestFile]

\* Files found at OUTPUT_PATH before the first run: none, an empty one, one
\* of other origin, a complete database.
FirstOutputs ==
    {None, Some(<<>>), Some(<<0>>), Some(write_database(from_parsed_data(NoData, TRUE).val))}

NoRun == [count |-> 0, outcome |-> "None", parsed |-> FALSE, created |-> FALSE,
          partial |-> None]

InitCreate ==
    /\ build = [overflow_checks |-> TRUE, usize_bits |-> 64]
    /\ phase = "builder"
    /\ codec = NoCodec
    /\ data = NoData
    /\ loc = Nil
    /\ psm = Nil
    /\ ranges = Nil
    /\ db = Nil
    /\ file = <<>>
    /\ view = Nil
    /\ owned = Nil
    /\ query = NoQuery
    /\ result = NoResult
    /\ disk \in [zip : {"absent", "small"}, output : FirstOutputs]
    /\ run = NoRun
    /\ readers = Nil
    /\ conn = Nil

\* The non-empty partial file that a failed write has left: recorded by the
\* run whose write fails after the first byte, and kept in the record until
\* the caller deletes or empties the file.
partial_after(done) ==
    IF run.partial.tag = "Some" THEN run.partial
    ELSE IF done.created /\ done.outcome = "Err" /\ Len(done.disk.output.val) > 0
    THEN Some(done.disk.output.val)
    ELSE None

\* One call of create_database.
CreateDatabase ==
    /\ run.count < MaxRuns
    /\ \E env \in Surroundings :
           LET done == create_database(disk, env, FromBagZip, build.overflow_checks)
           IN /\ disk' = done.disk
              /\ run' = [count |-> run.count + 1,
                         outcome |-> done.outcome,
                         parsed |-> done.parsed,
                         created |-> done.created,
                         partial |-> partial_after(done)]
    /\ UNCHANGED <<build, phase, codec, data, loc, psm, ranges, db, file, view, owned,
                   query, result, readers, conn>>

\* The caller deletes the output file.
CallerDeletes ==
    /\ disk.output.tag = "Some"
    /\ disk' = [disk EXCEPT !.output = None]
    /\ run' = [run EXCEPT !.partial = None]
    /\ UNCHANGED <<build, phase, codec, data, loc, psm, ranges, db, file, view, owned,
                   query, result, readers, conn>>

\* The caller empties the output file.
CallerEmpties ==
    /\ disk.output.tag = "Some"
    /\ Len(disk.output.val) > 0
    /\ disk' = [disk EXCEPT !.output = Some(<<>>)]
    /\ run' = [run EXCEPT !.partial = None]
    /\ UNCHANGED <<build, phase, codec, data, loc, psm, ranges, db, file, view, owned,
                   query, result, readers, conn>>

NextCreate == CreateDatabase \/ CallerDeletes \/ CallerEmpties

SpecCreate == InitCreate /\ [][NextCreate]_vars

SameOutput(a, b) == a.tag = b.tag /\ (a.tag = "Some" => a.val = b.val)

\* A step that is a call of create_database starting with a non-empty file
\* at the output path.
RunOverNonEmptyOutput ==
    run'.count = run.count + 1 /\ disk.output.tag = "Some" /\ disk.output.val # <<>>

-----------------------------------------------------------------------------
(* Concurrent lookups on one loaded handle: SpecReaders *)

\* Number of connection tasks that look up at the same time.
MaxReaders == 2

Readers == 1..MaxReaders

\* A database whose first range ends beyond u32::MAX.
OverflowDatabase ==
    [BaseDatabase EXCEPT !.ranges[1].start = U32_MAX, !.ranges[1].length = U16_MAX]

ServedDatabases == {BaseDatabase, OverflowDatabase}

ReaderQueries ==
    [postalcode : {PC_1234AB, PC_1234ab, PC_1235BB, PC_12345},
     house_number : {Wide(1), Wide(5)}]

IdleReader == [pc |-> "idle", query |-> NoQuery, index |-> 0, end |-> 0, result |-> Nil]

\* The handle of the server: the decoded database, or the view over the
\* bytes of the file.
Handle ==
    IF owned.tag = "Ok" THEN [kind |-> "Decoded", database |-> owned.val]
    ELSE [kind |-> "View", view |-> view.val, bytes |-> file]

InitReaders ==
    /\ build = [overflow_checks |-> TRUE, usize_bits |-> 64]
    /\ phase = "serving"
    /\ codec = NoCodec
    /\ data = NoData
    /\ loc = Nil
    /\ psm = Nil
    /\ ranges = Nil
    /\ db = Nil
    /\ \E d \in ServedDatabases :
           \/ /\ owned = Ok(d)
              /\ view = Nil
              /\ file = <<>>
           \/ /\ owned = Nil
              /\ view = from_bytes(write_database(d), build)
              /\ file = write_database(d)
    /\ query = NoQuery
    /\ result = NoResult
    /\ disk = Nil
    /\ run = Nil
    /\ readers = [r \in Readers |-> IdleReader]
    /\ conn = Nil

\* A task calls database.lookup(postal_code, house_number).
BeginLookup ==
    \E r \in Readers, q \in ReaderQueries :
        /\ readers[r].pc \in {"idle", "done"}
        /\ readers' = [readers EXCEPT ![r] = lookup_begin(Handle, q, build)]
        /\ UNCHANGED <<build, phase, codec, data, loc, psm, ranges, db, file, view, owned,
                       query, result, disk, run, conn>>

\* A task runs one iteration of the loop of its lookup.
IterateLookup ==
    \E r \in Readers :
        /\ readers[r].pc = "scan"
        /\ readers' = [readers EXCEPT ![r] = lookup_iterate(Handle, readers[r], build)]
        /\ UNCHANGED <<build, phase, codec, data, loc, psm, ranges, db, file, view, owned,
                       query, result, disk, run, conn>>

NextReaders == BeginLookup \/ IterateLookup

SpecReaders == InitReaders /\ [][NextReaders]_vars

\* C15: in every interleaving of the lookups of concurrent readers on one
\* handle, a finished call has returned what the call returns when run
\* alone, and no step changes the handle: its names, its ranges, its bytes.
C15_ConcurrentLookups ==
    /\ [](\A r \in Readers :
              readers[r].pc = "done" =>
                  SameReturned(readers[r].result,
                               handle_lookup_alone(Handle, readers[r].query, build)))
    /\ [][owned' = owned /\ view' = view /\ file' = file]_vars

\* C15 witness: while one reader is inside the loop of its lookup, another
\* has finished a different lookup with a street.
C15_Witness ==
    /\ \E r, t \in Readers :
           /\ readers[r].pc = "scan"
           /\ readers[t].pc = "done"
           /\ readers[t].result.tag = "Ok"
           /\ readers[t].result.val.tag = "Some"
           /\ readers[t].query.house_number # readers[r].query.house_number

-----------------------------------------------------------------------------
(* One connection of the service: SpecService *)

\* Pairs in the query of a request.
MaxPairs == 2

STR_POST == <<80, 79, 83, 84>>
STR_other == <<47, 111, 116, 104, 101, 114>>
STR_tail == <<32, 72, 84, 84, 80, 47, 49, 46, 49>> \o <<13, 10>> \o <<72, 111, 115, 116, 58, 32, 108, 111, 99, 97, 108, 104, 111, 115, 116>> \o <<13, 10, 13, 10>>

\* A parameter as the client means it: its key, whether it has an equals
\* sign, its text, and the number the text stands for (None when it stands
\* for none).
Param(key, eq, text, number) == [key |-> key, eq |-> eq, text |-> text, number |-> number]

RequestParams ==
    {Param(STR_pc, TRUE, PC_1234AB, None),
     Param(STR_pc, TRUE, PC_1234ab, None),
     Param(STR_pc, TRUE, PC_1235BB, None),
     Param(STR_pc, TRUE, PC_12345, None),
     Param(STR_n, TRUE, <<53>>, Some(Wide(5))),
     Param(STR_n, TRUE, <<53, 53>>, Some(Wide(55))),
     Param(STR_n, TRUE, <<97, 98, 99>>, None),
     Param(STR_wp, TRUE, <<97, 109>>, None),
     Param(STR_n, FALSE, <<>>, None),
     Param(<<>>, FALSE, <<>>, None)}

\* A parameter whose text is k letters a.
Padding(k) == Param(<<120>>, TRUE, [i \in 1..k |-> 97], None)

ParamLists ==
    {<<>>} \cup UNION {[1..k -> RequestParams] : k \in 1..MaxPairs}

\* Requests with a short request line, and GET /lookup?x=aa..a&pc=1234AB&n=55
\* with a request line around the size of the buffer.
SentRequests ==
    [method : {STR_GET, STR_POST}, path : {STR_root, STR_lookup, STR_suggest, STR_other},
     params : ParamLists]
    \cup {[method |-> STR_GET, path |-> STR_lookup,
           params |-> <<Padding(k), Param(STR_pc, TRUE, PC_1234AB, None),
                        Param(STR_n, TRUE, <<53, 53>>, Some(Wide(55)))>>] :
          k \in (REQUEST_BUFFER_SIZE - 32)..(REQUEST_BUFFER_SIZE - 20)}

param_text(param) == IF param.eq THEN param.key \o <<61>> \o param.text ELSE param.key

RECURSIVE join_params(_, _)
join_params(params, i) ==
    IF i > Len(params) THEN <<>>
    ELSE IF i = Len(params) THEN param_text(params[i])
    ELSE param_text(params[i]) \o <<38>> \o join_params(params, i + 1)

\* The bytes a client sends for a request.
request_bytes(request) ==
    request.method \o <<32>> \o request.path
        \o (IF Len(request.params) = 0 THEN <<>> ELSE <<63>> \o join_params(request.params, 1))
        \o STR_tail

NoConnection == [stage |-> "idle", request |-> [method |-> <<>>, path |-> <<>>, params |-> <<>>],
                 stream |-> [bytes |-> <<>>, io |-> "ok"], responses |-> <<>>]

InitService ==
    /\ build = [overflow_checks |-> TRUE, usize_bits |-> 64]
    /\ phase = "serving"
    /\ codec = NoCodec
    /\ data = NoData
    /\ loc = Nil
    /\ psm = Nil
    /\ ranges = Nil
    /\ db = Nil
    /\ \/ /\ owned = Ok(BaseDatabase)
          /\ view = Nil
          /\ file = <<>>
       \/ /\ owned = Nil
          /\ view = from_bytes(write_database(BaseDatabase), build)
          /\ file = write_database(BaseDatabase)
    /\ query = NoQuery
    /\ result = NoResult
    /\ disk = Nil
    /\ run = Nil
    /\ readers = Nil
    /\ conn = NoConnection

\* listener.accept(): a client has connected and sends a request.
Accept ==
    /\ conn.stage = "idle"
    /\ \E request \in SentRequests, io \in {"ok", "read_error", "write_error"} :
           conn' = [stage |-> "accepted", request |-> request,
                    stream |-> [bytes |-> request_bytes(request), io |-> io],
                    responses |-> <<>>]
    /\ UNCHANGED <<build, phase, codec, data, loc, psm, ranges, db, file, view, owned,
                   query, result, disk, run, readers>>

\* The spawned task runs to its end.
ServeConnection ==
    /\ conn.stage = "accepted"
    /\ conn' = [conn EXCEPT !.stage = "closed",
                            !.responses = connection_task(Handle, conn.stream, build)]
    /\ UNCHANGED <<build, phase, codec, data, loc, psm, ranges, db, file, view, owned,
                   query, result, disk, run, readers>>

NextService == Accept \/ ServeConnection

SpecService == InitService /\ [][NextService]_vars

\* The value a request gives a parameter: that of its last occurrence.
RECURSIVE last_param(_, _, _)
last_param(params, key, i) ==
    IF i = 0 THEN None
    ELSE IF params[i].eq /\ params[i].key = key THEN Some(params[i])
    ELSE last_param(params, key, i - 1)

SentParam(request, key) == last_param(request.params, key, Len(request.params))

FourDigitsTwoUppercase(text) ==
    /\ Len(text) = 6
    /\ \A i \in 1..4 : text[i] \in 48..57
    /\ \A i \in 5..6 : text[i] \in 65..90

\* The ranges of the served database that hold a house number of a code.
MatchingRanges(text, number) ==
    {i \in 1..Len(BaseDatabase.ranges) :
        /\ BaseDatabase.ranges[i].postal_code = KeyValue(text)
        /\ LeW(BaseDatabase.ranges[i].start, number)
        /\ LeW(number, AddW(BaseDatabase.ranges[i].start,
                            Wide(BaseDatabase.ranges[i].length)))}

Responded(status_code, message) ==
    /\ Len(conn.responses) = 1
    /\ conn.responses[1].status_code = status_code
    /\ conn.responses[1].body.error = message

AnsweredAddress(i) ==
    /\ Len(conn.responses) = 1
    /\ conn.responses[1].status_code = 200
    /\ conn.responses[1].body.pr
           = BaseDatabase.public_spaces[Nat32(BaseDatabase.ranges[i].public_space_index) + 1]
    /\ conn.responses[1].body.wp
           = BaseDatabase.localities[BaseDatabase.ranges[i].locality_index + 1]

\* The response the checks give the request the client has sent.
AnsweredByFirstFailingCheck ==
    IF conn.request.method # STR_GET THEN Responded(405, "method not allowed")
    ELSE IF conn.request.path \notin {STR_root, STR_lookup, STR_suggest}
    THEN Responded(404, "not found")
    ELSE IF conn.request.path = STR_suggest
    THEN Len(conn.responses) = 1 /\ conn.responses[1].status_code \in {200, 400}
    ELSE IF SentParam(conn.request, STR_pc).tag = "None"
    THEN Responded(400, "missing postal_code")
    ELSE IF \/ SentParam(conn.request, STR_n).tag = "None"
            \/ SentParam(conn.request, STR_n).val.number.tag = "None"
    THEN Responded(400, "missing house_number")
    ELSE IF ~FourDigitsTwoUppercase(SentParam(conn.request, STR_pc).val.text)
    THEN Responded(400, "invalid postal_code")
    ELSE IF MatchingRanges(SentParam(conn.request, STR_pc).val.text,
                           SentParam(conn.request, STR_n).val.number.val) = {}
    THEN Responded(404, "address not found")
    ELSE \E i \in MatchingRanges(SentParam(conn.request, STR_pc).val.text,
                                 SentParam(conn.request, STR_n).val.number.val) :
             AnsweredAddress(i)

\* C17: a connection whose read and writes succeed gets exactly one
\* response, the one of the first failing check in the order method, path,
\* pc present, n present and numeric, pc well-formed, range found; 200 with
\* the street and locality when none fails.
C17_OneResponseByFirstFailingCheck ==
    (conn.stage = "closed" /\ conn.stream.io = "ok") => AnsweredByFirstFailingCheck

\* The same for the requests that fit the buffer of the handler.
AnsweredWhenRequestFitsBuffer ==
    (/\ conn.stage = "closed"
     /\ conn.stream.io = "ok"
     /\ Len(conn.stream.bytes) <= REQUEST_BUFFER_SIZE) => AnsweredByFirstFailingCheck

\* C17 witness: a lookup of a lowercase code with a house number has been
\* answered with 400 'invalid postal_code'.
C17_Witness ==
    /\ conn.stage = "closed"
    /\ conn.stream.io = "ok"
    /\ conn.request.method = STR_GET
    /\ conn.request.path = STR_lookup
    /\ SentParam(conn.request, STR_pc).tag = "Some"
    /\ SentParam(conn.request, STR_pc).val.text = PC_1234ab
    /\ SentParam(conn.request, STR_n).tag = "Some"
    /\ SentParam(conn.request, STR_n).val.number.tag = "Some"
    /\ Responded(400, "invalid postal_code")

\* A request for house number 55 of 1234AB, which no range holds, is
\* answered with the street of house number 5: the buffer ends behind the
\* first digit.
TruncatedNumberIsAnswered ==
    /\ conn.stage = "closed"
    /\ conn.stream.io = "ok"
    /\ Len(conn.stream.bytes) > REQUEST_BUFFER_SIZE
    /\ Len(conn.responses) = 1
    /\ conn.responses[1].status_code = 200

-----------------------------------------------------------------------------
(* The offsets the writer computes for names of any length: SpecLayout *)

\* Lengths of a name: 1 byte, 2^31 bytes, 2^32 - 1 bytes, 2^32 bytes and
\* 2^32 + 1 bytes.
NameLens == {Wide(1), <<Limb \div 2, 0>>, U32_MAX, <<Limb, 0>>, <<Limb, 1>>}

RECURSIVE TotalLen(_, _)
TotalLen(lens, i) == IF i > Len(lens) THEN Wide(0) ELSE AddW(lens[i], TotalLen(lens, i + 1))

SizedDatabases ==
    [localities : SeqsUpTo(NameLens, MaxNames),
     public_spaces : SeqsUpTo(NameLens, MaxNames),
     ranges : 0..MaxRanges]

\* The names of a database are in memory together: with a 32-bit usize
\* their lengths sum to less than 2^32.
FitsMemory(sized, b_) ==
    b_.usize_bits = 64
        \/ FitsU32(AddW(TotalLen(sized.localities, 1), TotalLen(sized.public_spaces, 1)))

InitLayout ==
    /\ build \in Builds
    /\ phase = "sized"
    /\ codec = NoCodec
    /\ data = NoData
    /\ loc = Nil
    /\ psm = Nil
    /\ ranges = Nil
    /\ db \in {Ok(d) : d \in {s \in SizedDatabases : FitsMemory(s, build)}}
    /\ file = <<>>
    /\ view = Nil
    /\ owned = Nil
    /\ query = NoQuery
    /\ result = NoResult
    /\ disk = Nil
    /\ run = Nil
    /\ readers = Nil
    /\ conn = Nil

\* database.encode(path), as far as the header and the offsets tables
EncodeLayout ==
    /\ phase = "sized"
    /\ run' = encode_layout(db.val, build.usize_bits, build.overflow_checks)
    /\ phase' = "laid out"
    /\ UNCHANGED <<build, codec, data, loc, psm, ranges, db, file, view, owned, query,
                   result, disk, readers, conn>>

NextLayout == EncodeLayout

SpecLayout == InitLayout /\ [][NextLayout]_vars

\* The offsets of the sections and the entries of the offsets tables of a
\* database, as numbers of any size.
TrueSectionOffsets(sized) ==
    [locality_offsets_offset |-> Wide(DATABASE_HEADER_SIZE),
     locality_data_offset |->
         AddW(Wide(DATABASE_HEADER_SIZE), Mul4W(Wide(Len(sized.localities) + 1))),
     public_space_offsets_offset |->
         AddW(AddW(Wide(DATABASE_HEADER_SIZE), Mul4W(Wide(Len(sized.localities) + 1))),
              TotalLen(sized.localities, 1)),
     public_space_data_offset |->
         AddW(AddW(AddW(Wide(DATABASE_HEADER_SIZE), Mul4W(Wide(Len(sized.localities) + 1))),
                   TotalLen(sized.localities, 1)),
              Mul4W(Wide(Len(sized.public_spaces) + 1))),
     ranges_offset |->
         AddW(AddW(AddW(AddW(Wide(DATABASE_HEADER_SIZE),
                             Mul4W(Wide(Len(sized.localities) + 1))),
                        TotalLen(sized.localities, 1)),
                   Mul4W(Wide(Len(sized.public_spaces) + 1))),
              TotalLen(sized.public_spaces, 1))]

TrueNameOffsets(lens) ==
    [i \in 1..(Len(lens) + 1) |-> TotalLen(SubSeq(lens, 1, i - 1), 1)]

OffsetFields ==
    {"locality_offsets_offset", "locality_data_offset", "public_space_offsets_offset",
     "public_space_data_offset", "ranges_offset"}

\* Some offset of the database does not fit in 32 bits.
OffsetOverflows(sized) ==
    \/ \E f \in OffsetFields : ~FitsU32(TrueSectionOffsets(sized)[f])
    \/ ~FitsU32(TotalLen(sized.localities, 1))
    \/ ~FitsU32(TotalLen(sized.public_spaces, 1))

\* What was written holds the offsets of the database.
WrittenExactly(written, sized) ==
    /\ \A f \in OffsetFields : written.header[f] = TrueSectionOffsets(sized)[f]
    /\ written.locality_offsets = TrueNameOffsets(sized.localities)
    /\ written.public_space_offsets = TrueNameOffsets(sized.public_spaces)

\* C24: encode returns an error whenever a section offset or an accumulated
\* name offset does not fit in 32 bits, and what it writes otherwise holds
\* the offsets themselves, none truncated or saturated.
C24_OffsetOverflowIsFatal ==
    phase = "laid out" =>
        /\ OffsetOverflows(db.val) => run.tag = "Err"
        /\ run.tag = "Ok" => WrittenExactly(run.val, db.val)

\* C24 witness: encode has run on a 64-bit target on a database whose two
\* public spaces have names of 2^31 bytes each.
C24_Witness ==
    /\ phase = "laid out"
    /\ build.usize_bits = 64
    /\ db.val.public_spaces = <<<<Limb \div 2, 0>>, <<Limb \div 2, 0>>>>
    /\ run.tag = "Ok"
    /\ run.val.header.ranges_offset[1] = 0
    /\ run.val.public_space_offsets[3] = U32_MAX

\* On a 64-bit target encode never fails on an offset.
EncodeNeverFailsOnOffsets ==
    (phase = "laid out" /\ build.usize_bits = 64) => run.tag = "Ok"

\* Without an overflow encode writes the offsets themselves.
ExactWithoutOverflow ==
    (phase = "laid out" /\ ~OffsetOverflows(db.val)) =>
        (run.tag = "Ok" /\ WrittenExactly(run.val, db.val))

-----------------------------------------------------------------------------
(* The two searches of a lookup on a sorted range block: SpecSearch *)

\* Most ranges of a block searched.
MaxBlock == 5

BlockCodes == <<PC_1234AB, PC_1234AC, PC_1240AB>>

\* Blocks sorted by postal code, the empty one among them: range i holds
\* house number i of one of three codes.
SortedBlocks ==
    UNION {{[i \in 1..n |->
                [postal_code |-> KeyValue(BlockCodes[pick[i]]),
                 start |-> Wide(i),
                 length |-> 0,
                 public_space_index |-> Wide(0),
                 locality_index |-> 0]] :
            pick \in {f \in [1..n -> 1..Len(BlockCodes)] :
                         \A i \in 1..(n - 1) : f[i] <= f[i + 1]}} :
           n \in 0..MaxBlock}

\* Keys below, between, at and above the codes of a block.
SearchQueries ==
    [postalcode : {PC_1234AB, PC_1234AC, PC_1235BB, PC_1240AB,
                   <<48, 48, 48, 48, 65, 65>>, <<57, 57, 57, 57, 90, 90>>},
     house_number : {Wide(1)}]

InitSearch ==
    /\ build = [overflow_checks |-> TRUE, usize_bits |-> 64]
    /\ phase = "block"
    /\ codec = NoCodec
    /\ data = NoData
    /\ loc = Nil
    /\ psm = Nil
    /\ ranges = Nil
    /\ db \in {Ok([localities |-> <<NameA>>, public_spaces |-> <<StreetS>>, ranges |-> rs]) :
                  rs \in SortedBlocks}
    /\ file = write_database(db.val)
    /\ view = from_bytes(file, build)
    /\ owned = from_reader(file, build)
    /\ query = NoQuery
    /\ result = NoResult
    /\ disk = Nil
    /\ run = Nil
    /\ readers = Nil
    /\ conn = Nil

\* The part of lookup up to its loop, on the view and on the decoded
\* database of the file.
SearchBoth ==
    /\ phase = "block"
    /\ \E q \in SearchQueries :
           /\ query' = q
           /\ result' = [view |-> lookup_begin([kind |-> "View", view |-> view.val,
                                                bytes |-> file], q, build),
                         owned |-> lookup_begin([kind |-> "Decoded", database |-> owned.val],
                                                q, build)]
    /\ phase' = "searched"
    /\ UNCHANGED <<build, codec, data, loc, psm, ranges, db, file, view, owned, service>>

NextSearch == SearchBoth

SpecSearch == InitSearch /\ [][NextSearch]_vars

\* The 0-based indices of the ranges of the block with the queried code.
IndicesOfKey ==
    {i \in 0..(Len(db.val.ranges) - 1) :
        db.val.ranges[i + 1].postal_code = KeyValue(query.postalcode)}

IntervalOfKey(search) ==
    /\ search.pc = "scan"
    /\ search.index <= search.end
    /\ {i \in 0..(Len(db.val.ranges) - 1) : search.index <= i /\ i < search.end}
           = IndicesOfKey

\* C26: on a block sorted by postal code, of any length, the two searches
\* of a lookup end with start <= end and the indices from start up to end are
\* exactly those of the ranges with the key; the view and the owned decoder
\* find the same interval.
C26_SearchFindsTheIntervalOfTheKey ==
    phase = "searched" =>
        /\ IntervalOfKey(result.view)
        /\ IntervalOfKey(result.owned)
        /\ result.view.index = result.owned.index
        /\ result.view.end = result.owned.end

\* C26 witness: the searches have found an interval of two or more ranges
\* that begins behind the first range and ends before the last.
C26_Witness ==
    /\ phase = "searched"
    /\ result.view.pc = "scan"
    /\ result.view.index > 0
    /\ result.view.end >= result.view.index + 2
    /\ result.view.end < Len(db.val.ranges)
    /\ result.owned.pc = "scan"

\* The searches have found the empty interval for a key between two codes
\* of the block, and for any key on the empty block.
SearchFoundEmptyInterval ==
    /\ phase = "searched"
    /\ result.view.pc = "scan"
    /\ result.view.index = result.view.end
    /\ \/ Len(db.val.ranges) = 0
       \/ result.view.index > 0 /\ result.view.index < Len(db.val.ranges)

=============================================================================
